---- MODULE Spec2Model ----
(***************************************************************************)
(* Geometric Interior: frame-buffer pipeline, export encoder and the page  *)
(* glue that drives them.                                                   *)
(*                                                                          *)
(* The specifications share     the variables below:                          *)
(*   SpecPre    preRenderFrames as a function of its arguments, with an     *)
(*              arbitrary isCancelled callback;                             *)
(*   SpecExport exportFromBuffer against an arbitrary host encoder;         *)
(*   SpecInterp evalAspectsAt as a function of loop time and landmarks;     *)
(*   Spec       the page: mode pills, render button, duration slider and    *)
(*              loop-list edits, each running to its next await, with the   *)
(*              pending preRenderFrames calls resumed by the event loop.    *)
(*                                                                          *)
(* JavaScript is single threaded: an action below is one run-to-completion  *)
(* segment (from an event or a promise resolution to the next await).       *)
(* Assumed of the host: createImageBitmap and the drawing calls do not      *)
(* throw.  DOM text, toasts and CSS classes are not modelled.               *)
(***************************************************************************)
EXTENDS Integers, Sequences, FiniteSets, TLC

VARIABLES
    calls,          \* preRenderFrames activations, one per call slot
    closed,         \* set of ImageBitmap ids on which close() has been called
    canvas,         \* what the shared canvas shows (last renderWith / drawImage)
    currentMode,    \* main.js currentMode
    loopLandmarks,  \* main.js loopLandmarks (profile names)
    loopDurationMs, \* main.js loopDurationMs
    frameBuffer,    \* main.js frameBuffer
    renderBtnDisabled, \* el.renderBtn.disabled
    exportBtnDisabled, \* el.exportBtn.disabled
    playing,        \* animation controller state.playing
    ctlFrames,      \* animation controller state.frames
    ctlDurationMs,  \* animation controller state.durationMs
    live,           \* ghost: call slots whose preRenderFrames has not returned
    exp,            \* exportFromBuffer activation
    itp,            \* evalAspectsAt activation
    prm,            \* deriveParams activation
    rnd,            \* random streams and renderWith calls
    raf,            \* requestAnimationFrame queue of the playback controller
    ldr,            \* loading animation (loading-animation.js closure state)
    thq             \* thumbnail cache, queue and drain timer (main.js)

vars == <<calls, closed, canvas, currentMode, loopLandmarks,
          loopDurationMs, frameBuffer, renderBtnDisabled, exportBtnDisabled,
          playing, ctlFrames, ctlDurationMs, live, exp, itp, prm, rnd, raf,
          ldr, thq>>

\* what the page handlers of Spec and a direct preRenderFrames call leave alone
offPage == <<exp, itp, prm, rnd, raf, ldr, thq>>

appVars == <<currentMode, loopLandmarks, loopDurationMs, frameBuffer,
             renderBtnDisabled, exportBtnDisabled, playing, ctlFrames,
             ctlDurationMs, live>>

(***************************************************************************)
(* Program constants                                                        *)
(***************************************************************************)
ANIM_FPS == 24
PRE_ROLL_FRAMES == 12
NumCandidates == 2                  \* length of codecCandidates
SanityBytes == 1024                 \* smallest MP4 payload that is returned

(***************************************************************************)
(* Bounds and input sets                                                    *)
(***************************************************************************)
MaxCalls == 2                       \* preRenderFrames call slots
MaxLandmarks == 2                   \* longest loop list
ProfileNames == {"a"}               \* stored image profiles (all have aspects)
DurationSecs == {1, 2}              \* positions of the duration slider
PreDurations == {0, 20, 125, 250, 500, 1000, 1500}  \* durationMs arguments
PreFps == {1, 3, 5, ANIM_FPS}       \* fps arguments
MaxExportFrames == 9                \* longest frame list handed to exportFromBuffer
ExportFps == {1, 3, ANIM_FPS}       \* fps arguments of exportFromBuffer
BlobSizes == {0, 1023, 1024, 4096}  \* sizes of the finalized MP4 payload

Slots == 1..MaxCalls

(***************************************************************************)
(* Arithmetic as the code computes it                                       *)
(***************************************************************************)
Max(a, b) == IF a >= b THEN a ELSE b
Min(a, b) == IF a <= b THEN a ELSE b

\* JavaScript %: the result has the sign of the dividend
JsRem(a, b) == IF a >= 0 THEN a % b ELSE 0 - ((0 - a) % b)

\* Math.round(n/d) for n >= 0, d > 0: floor(n/d + 1/2)
MathRound(n, d) == (2 * n + d) \div (2 * d)

\* truncating instead of rounding
TotalFramesFloor(durationMs, fps) == Max(1, (durationMs * fps) \div 1000)

\* part_000 line 38
TotalFrames(durationMs, fps) == Max(1, MathRound(durationMs * fps, 1000))

\* a pre-roll time that is not reduced after the shift by one loop
PreTUnreduced(p, totalFrames) == JsRem(0 - p, totalFrames) + totalFrames

\* part_000 line 44: numerator of preT over totalFrames
PreT(p, totalFrames) ==
    JsRem(JsRem(0 - p, totalFrames) + totalFrames, totalFrames)

(***************************************************************************)
(* Interpolation (interpolation.js, params.js lines 67-69)                  *)
(* Aspect values and blend factors are fixed-point numbers: the integer x   *)
(* stands for x / Unit.  A product is rounded down to the grid.  Loop time  *)
(* is the exact fraction num / den.                                         *)
(***************************************************************************)
Unit == 6000
TIME_WARP_STRENGTH == (78 * Unit) \div 100

Mul(a, b) == (a * b) \div Unit

\* params.js line 67
Clamp01(x) == Max(0, Min(Unit, x))

\* params.js line 69
Lerp(a, b, t) == a + Mul(b - a, t)

\* interpolation.js lines 9-12
Smootherstep(t) ==
    LET c == Clamp01(t)
    IN  Mul(Mul(Mul(c, c), c), Mul(c, 6 * c - 15 * Unit) + 10 * Unit)

\* lines 14-17
WarpSegmentT(t, strength) == Lerp(t, Smootherstep(t), Clamp01(strength))

\* Math.cos(Math.PI * t) for t in [0, 1], by Bhaskara's rational form
\* (1 - 4 t^2) / (1 + t^2) on [0, 1/2] and its mirror image on [1/2, 1];
\* it is exact at t = 0, 1/3, 1/2, 2/3, 1 and within 0.002 in between
CosPi(t) ==
    IF 2 * t <= Unit
    THEN ((Unit - 4 * Mul(t, t)) * Unit) \div (Unit + Mul(t, t))
    ELSE 0 - (((Unit - 4 * Mul(Unit - t, Unit - t)) * Unit)
                  \div (Unit + Mul(Unit - t, Unit - t)))

\* lines 19-21
CosineEase(t) == (Unit - CosPi(t)) \div 2

\* a cubic without the leading factor 0.5
CatmullRomUnhalved(p0, p1, p2, p3, t) ==
    LET t2 == Mul(t, t)
        t3 == Mul(t2, t)
    IN  2 * p1 + Mul(p2 - p0, t) + Mul(2 * p0 - 5 * p1 + 4 * p2 - p3, t2)
            + Mul(3 * p1 - p0 - 3 * p2 + p3, t3)

\* lines 23-32
CatmullRom(p0, p1, p2, p3, t) ==
    LET t2 == Mul(t, t)
        t3 == Mul(t2, t)
    IN  (2 * p1 + Mul(p2 - p0, t) + Mul(2 * p0 - 5 * p1 + 4 * p2 - p3, t2)
            + Mul(3 * p1 - p0 - 3 * p2 + p3, t3)) \div 2

Fields == {"coherence", "tension", "recursion", "motion", "vulnerability",
           "radiance"}

\* a guard that lets a single landmark through
TooFewLandmarksOnlyEmpty(n) == n < 1

\* line 36
TooFewLandmarks(n) == n < 2

\* a phase that runs once from 0 to 1 over the loop
PhaseOneWay(num, den) == (num * Unit) \div den

\* line 42: up over the first half of the loop, down over the second
Phase(num, den) ==
    IF 2 * num < den
    THEN (2 * num * Unit) \div den
    ELSE 2 * Unit - ((2 * num * Unit) \div den)

\* neighbours held at the ends of the list instead of wrapping round
ControlIndicesClamped(i1, n) ==
    <<Max(i1 - 1, 0), i1, Min(i1 + 1, n - 1), Min(i1 + 2, n - 1)>>

\* lines 62-64: i0, i1, i2, i3 (counted from 0)
ControlIndices(i1, n) ==
    <<JsRem(i1 - 1 + n, n), i1, JsRem(i1 + 1, n), JsRem(i1 + 2, n)>>

\* a field taken from the cubic as it comes
SplineFieldUnclamped(p0, p1, p2, p3, t) == CatmullRom(p0, p1, p2, p3, t)

\* lines 71-78: one field of the spline branch
SplineField(p0, p1, p2, p3, t) == Clamp01(CatmullRom(p0, p1, p2, p3, t))

\* the null result; reads lists the landmark indices read, in order, mods the
\* divisors of the remainders taken, blend the factor handed to lerp or to
\* the cubic
NullOut ==
    [isNull |-> TRUE, aspects |-> [k \in Fields |-> 0], reads |-> <<>>,
     mods |-> <<>>, blend |-> 0]

\* lines 34-79
EvalAspectsAt(num, den, landmarks) ==
    LET n == Len(landmarks)
    IN  IF TooFewLandmarks(n)
        THEN NullOut
        ELSE IF n = 2
        THEN LET a0 == landmarks[1].aspects
                 a1 == landmarks[2].aspects
                 phase == Phase(num, den)
                 warped == WarpSegmentT(phase, Mul(TIME_WARP_STRENGTH,
                                                   (55 * Unit) \div 100))
                 u == CosineEase(warped)
             IN  [isNull |-> FALSE,
                  aspects |-> [k \in Fields |-> Lerp(a0[k], a1[k], u)],
                  reads |-> <<0, 1>>, mods |-> <<>>, blend |-> u]
        ELSE LET segFloor == (num * n) \div den
                 i1 == JsRem(segFloor, n)
                 tLinear == ((num * n - segFloor * den) * Unit) \div den
                 t == WarpSegmentT(tLinear, TIME_WARP_STRENGTH)
                 ix == ControlIndices(i1, n)
                 A0 == landmarks[ix[1] + 1].aspects
                 A1 == landmarks[ix[2] + 1].aspects
                 A2 == landmarks[ix[3] + 1].aspects
                 A3 == landmarks[ix[4] + 1].aspects
             IN  [isNull |-> FALSE,
                  aspects |-> [k \in Fields |->
                                 SplineField(A0[k], A1[k], A2[k], A3[k], t)],
                  reads |-> ix, mods |-> <<n, n, n, n>>, blend |-> t]

IdleInterp ==
    [pc |-> "idle", landmarks |-> <<>>, num |-> 0, den |-> 1, out |-> NullOut,
     seam |-> <<>>]

(***************************************************************************)
(* deriveParams (params.js lines 7-38), in the same fixed point; hues are   *)
(* counted in HueUnit-ths of a degree.  rs is the sequence of the next       *)
(* outputs of the rng argument, each in [0, Unit).                          *)
(***************************************************************************)
HueUnit == 100
Dec(x) == (x * Unit) \div 100       \* the decimal fraction x / 100

\* a count rounded to the nearest integer
RoundCount(x) == (2 * x + Unit) \div (2 * Unit)

\* lines 28-30: Math.floor of a float count
FloorCount(x) == x \div Unit

\* only the hue candidate that radiance selects is drawn
HueCandidatesLazy(a, rs) ==
    IF a.radiance > Dec(62)
    THEN [hueHigh |-> Lerp(215 * HueUnit, 315 * HueUnit, rs[2]), hueLow |-> 0,
          drawn |-> 1]
    ELSE [hueHigh |-> 0, hueLow |-> Lerp(190 * HueUnit, 285 * HueUnit, rs[2]),
          drawn |-> 1]

\* lines 18-19: both hue candidates are drawn, second and third output
HueCandidates(a, rs) ==
    [hueHigh |-> Lerp(215 * HueUnit, 315 * HueUnit, rs[2]),
     hueLow |-> Lerp(190 * HueUnit, 285 * HueUnit, rs[3]),
     drawn |-> 2]

\* lines 7-38; drawn is the number of rng() calls made
DeriveParams(a, rs) ==
    LET symmetry == Clamp01(Mul(Lerp(Dec(25), Dec(95), a.coherence),
                                Unit - Mul(Dec(25), a.tension)))
        fracture == Clamp01(Mul(Lerp(Dec(5), Dec(85), a.tension),
                                Unit - Mul(Dec(18), a.coherence)))
        density == Clamp01(Lerp(Dec(15), Dec(95), a.recursion)
                           + Mul(Dec(8), a.vulnerability))
        flow == Clamp01(Mul(Lerp(0, Dec(95), a.motion),
                            Unit - Mul(Dec(12), a.coherence))
                        + Mul(Dec(3), a.tension))
        lum == Clamp01(Lerp(Dec(15), Dec(95), a.radiance))
        bleed == Clamp01(Mul(Lerp(0, Unit, a.vulnerability),
                             Unit - Mul(Dec(35), a.tension)))
        edgeSharpness == Clamp01(Mul(Lerp(Dec(15), Dec(95), a.tension),
                                     Unit - Mul(Dec(45), a.vulnerability)))
        multiAxis == Clamp01(Mul(Unit - a.coherence, a.tension))
        paletteWobble == ((2 * rs[1] - Unit) * 14 * HueUnit) \div Unit
        cand == HueCandidates(a, rs)
        radBlend == Clamp01(((a.radiance - Dec(55)) * Unit) \div Dec(14))
        baseHue == Lerp(cand.hueLow, cand.hueHigh, radBlend)
        hue == JsRem(baseHue + Lerp(0 - 35 * HueUnit, 45 * HueUnit, a.tension)
                     + paletteWobble + 360 * HueUnit, 360 * HueUnit)
        nodeCountF == Lerp(3 * Unit, 11 * Unit, density)
        shardLayersF == 2 * Unit + Lerp(Unit, 6 * Unit, density)
        shardsPerLayerF == 10 * Unit + Lerp(8 * Unit, 36 * Unit, density)
        grain == Lerp(Dec(2), Dec(8), Unit - lum) + Mul(Dec(2), fracture)
        shardAlphaBase == Mul(Lerp(Dec(4), Dec(12), lum),
                              Lerp(Dec(90), Dec(125), Unit - edgeSharpness))
        shardAlpha == Clamp01(shardAlphaBase + Mul(Dec(5), bleed))
    IN  [symmetry |-> symmetry, fracture |-> fracture, density |-> density,
         flow |-> flow, lum |-> lum, bleed |-> bleed,
         edgeSharpness |-> edgeSharpness, multiAxis |-> multiAxis, hue |-> hue,
         nodeCount |-> FloorCount(nodeCountF), nodeCountF |-> nodeCountF,
         shardLayers |-> FloorCount(shardLayersF), shardLayersF |-> shardLayersF,
         shardsPerLayer |-> FloorCount(shardsPerLayerF),
         shardsPerLayerF |-> shardsPerLayerF,
         grain |-> grain, shardAlpha |-> shardAlpha,
         drawn |-> 1 + cand.drawn]

(***************************************************************************)
(* The seeded generators (params.js lines 44-65).  A 32-bit word is the     *)
(* pair <<hi, lo>> of its 16-bit halves, so that every step stays inside    *)
(* the checker's integers; all arithmetic is modulo 2^32 as Math.imul, the  *)
(* bitwise operators and >>> 0 make it.  A seed string is the sequence of   *)
(* its UTF-16 code units.                                                   *)
(***************************************************************************)
Half == 65536

RECURSIVE BitXor(_, _)
BitXor(a, b) ==
    IF a = 0 THEN b
    ELSE IF b = 0 THEN a
    ELSE ((a + b) % 2) + 2 * BitXor(a \div 2, b \div 2)

RECURSIVE BitOr(_, _)
BitOr(a, b) ==
    IF a = 0 THEN b
    ELSE IF b = 0 THEN a
    ELSE Max(a % 2, b % 2) + 2 * BitOr(a \div 2, b \div 2)

Word(n) == <<n \div Half, n % Half>>            \* a number below 2^31
Xor32(x, y) == <<BitXor(x[1], y[1]), BitXor(x[2], y[2])>>
Or32(x, y) == <<BitOr(x[1], y[1]), BitOr(x[2], y[2])>>

\* x >>> n, 0 < n < 32
Shr32(x, n) ==
    IF n >= 16
    THEN <<0, x[1] \div (2 ^ (n - 16))>>
    ELSE <<x[1] \div (2 ^ n),
           (x[1] % (2 ^ n)) * (2 ^ (16 - n)) + x[2] \div (2 ^ n)>>

\* x << n, 0 < n < 16
Shl32(x, n) ==
    <<(x[1] % (2 ^ (16 - n))) * (2 ^ n) + x[2] \div (2 ^ (16 - n)),
      (x[2] % (2 ^ (16 - n))) * (2 ^ n)>>

\* the sum, truncated to 32 bits by the bitwise operator that consumes it
Add32(x, y) ==
    LET lo == x[2] + y[2]
    IN  <<(x[1] + y[1] + lo \div Half) % Half, lo % Half>>

\* the full product of two 16-bit halves, by 8-bit digits
Mul16(a, b) ==
    LET a1 == a \div 256
        a0 == a % 256
        b1 == b \div 256
        b0 == b % 256
        mid == a1 * b0 + a0 * b1
        lo == (mid % 256) * 256 + a0 * b0
    IN  <<(a1 * b1 + mid \div 256 + lo \div Half) % Half, lo % Half>>

\* Math.imul: the low 32 bits of the product
Imul(x, y) ==
    LET ll == Mul16(x[2], y[2])
    IN  <<(ll[1] + Mul16(x[1], y[2])[2] + Mul16(x[2], y[1])[2]) % Half, ll[2]>>

\* xmur3, lines 45-49: the hash state after the loop over the string
RECURSIVE Xmur3Mix(_, _, _)
Xmur3Mix(h, str, i) ==
    IF i > Len(str) THEN h
    ELSE LET m == Imul(Xor32(h, Word(str[i])), <<52382, 11601>>)
         IN  Xmur3Mix(Or32(Shl32(m, 13), Shr32(m, 19)), str, i + 1)

Xmur3(str) == Xmur3Mix(Xor32(<<27145, 58983>>, Word(Len(str))), str, 1)

\* lines 50-55: one call of the function xmur3 returns
Xmur3Next(h) ==
    LET h1 == Imul(Xor32(h, Shr32(h, 16)), <<34283, 51819>>)
        h2 == Imul(Xor32(h1, Shr32(h1, 13)), <<49842, 44597>>)
        h3 == Xor32(h2, Shr32(h2, 16))
    IN  [h |-> h3, out |-> h3]

\* lines 59-64: one call of the function mulberry32 returns; out is the
\* numerator of the result over 2^32
Mulberry32Next(a) ==
    LET t0 == Add32(a, <<27947, 31221>>)
        t1 == Imul(Xor32(t0, Shr32(t0, 15)), Or32(t0, Word(1)))
        t2 == Xor32(t1, Add32(t1, Imul(Xor32(t1, Shr32(t1, 7)),
                                       Or32(t1, Word(61)))))
    IN  [a |-> t0, out |-> Xor32(t2, Shr32(t2, 14))]

\* a generator output as a fixed-point number: floor(out / 2^32 * Unit)
ToUnit(w) == (w[1] * Unit + (w[2] * Unit) \div Half) \div Half

\* is w the numerator of a value in [0, 1)
IsWord(w) == w[1] \in 0..(Half - 1) /\ w[2] \in 0..(Half - 1)

IdleParams == [pc |-> "idle", aspects |-> [k \in Fields |-> 0], rs |-> <<>>]

IdleRender == [pc |-> "idle"]

\* the playback controller's tick callbacks: pending counts the tickBuffer
\* callbacks requestAnimationFrame holds, stale collects the bitmaps that
\* were handed to drawImage or VideoFrame after they had been closed, tick
\* what the last tick that selected a frame was given and did
NoTick == [ran |-> FALSE, elapsed |-> 0, index |-> -1, len |-> 0, prev |-> -1,
           drew |-> FALSE]

IdleRaf == [pending |-> 0, lastFrameIndex |-> -1, stale |-> {}, tick |-> NoTick]

\* loading-animation.js lines 22-35: the closure state after
\* createLoadingAnimation.  created and attached tell whether the canvas
\* exists and is a child of the container, elapsed is the time since
\* transitionStart, pending the requestAnimationFrame ids not yet run
IdleLoader ==
    [phase |-> "idle", scale |-> 0, transitionFrom |-> 0, elapsed |-> 0,
     pending |-> 0, rafIdPending |-> FALSE, starts |-> 0,
     created |-> FALSE, attached |-> FALSE]

\* main.js: thumbnail cache, queue and drain flag, all empty at load
IdleThumbs ==
    [cache |-> {}, queue |-> <<>>, thumbProcessing |-> FALSE, timers |-> 0,
     requests |-> 0, src |-> <<>>]

(***************************************************************************)
(* Records                                                                  *)
(***************************************************************************)
Ev(op, a, b) == [op |-> op, a |-> a, b |-> b]

Blank == [kind |-> "blank", seed |-> <<>>, lm |-> <<>>, num |-> 0, den |-> 1]

\* renderer.renderWith(seed, evalAspectsAt(num/den, landmarks)) on the canvas
AnimImage(seed, lm, num, den) ==
    [kind |-> "anim", seed |-> seed, lm |-> lm, num |-> num, den |-> den]

StillImage == [kind |-> "still", seed |-> <<>>, lm |-> <<>>, num |-> 0, den |-> 1]

IdleCall ==
    [pc |-> "idle", landmarks |-> <<>>, seed |-> <<>>, durationMs |-> 0,
     fps |-> 0, totalFrames |-> 0, f |-> 0, frames |-> <<>>,
     pending |-> <<>>, trace |-> FALSE, log |-> <<>>, result |-> "none"]

EmptyBuffer ==
    [frames |-> <<>>, rendered |-> FALSE, durationMs |-> 0, seed |-> <<>>,
     rendering |-> FALSE]

NoResult == [kind |-> "none", blobSize |-> 0, ext |-> "", frames |-> <<>>,
             totalFrames |-> 0]

IdleExport ==
    [pc |-> "idle", frames |-> <<>>, fps |-> 0, hostCodec |-> FALSE,
     totalFrames |-> 0, frameDurationUs |-> 0, ci |-> 0, probed |-> <<>>,
     chosen |-> 0, f |-> 0, encoded |-> <<>>, encoderClosed |-> FALSE,
     finalSize |-> -1, fault |-> "none", png |-> <<>>, result |-> NoResult]

\* the calls an activation makes on its collaborators are logged when it is traced
Logged(c, evs) == IF c.trace THEN c.log \o evs ELSE c.log

BitmapIds(frames) == {frames[i].id : i \in 1..Len(frames)}

(***************************************************************************)
(* preRenderFrames (part_000 lines 35-73)                                   *)
(* An effect is [call, canvas, closed]: the activation after a segment,     *)
(* the canvas and the closed bitmaps it leaves.  motionBlur calls change no *)
(* state kept here; they appear in the log of a traced activation.         *)
(***************************************************************************)

\* a pre-roll loop that stops one step early (p > 1)
PreRollLogShort(totalFrames) ==
    [k \in 1..(3 * (PRE_ROLL_FRAMES - 1)) |->
        LET p == PRE_ROLL_FRAMES - ((k - 1) \div 3)
        IN  CASE (k - 1) % 3 = 0 -> Ev("eval", PreT(p, totalFrames), totalFrames)
              [] (k - 1) % 3 = 1 -> Ev("render", PreT(p, totalFrames), totalFrames)
              [] OTHER           -> Ev("apply", 0, 0)]

\* lines 43-48: the log of the pre-roll loop, p = PRE_ROLL_FRAMES down to 1
PreRollLog(totalFrames) ==
    [k \in 1..(3 * PRE_ROLL_FRAMES) |->
        LET p == PRE_ROLL_FRAMES - ((k - 1) \div 3)
        IN  CASE (k - 1) % 3 = 0 -> Ev("eval", PreT(p, totalFrames), totalFrames)
              [] (k - 1) % 3 = 1 -> Ev("render", PreT(p, totalFrames), totalFrames)
              [] OTHER           -> Ev("apply", 0, 0)]

\* lines 53-56: isCancelled() answered true; close what was captured, return null
LoopCancelLeak(c, cv, cl) ==
    [call |-> [c EXCEPT !.pc = "returned", !.result = "null",
                        !.log = Logged(c, <<Ev("check", c.f, 1)>>)],
     canvas |-> cv, closed |-> cl]

LoopCancel(c, cv, cl) ==
    [call |-> [c EXCEPT !.pc = "returned", !.result = "null",
                        !.log = Logged(c, <<Ev("check", c.f, 1)>>
                                   \o [i \in 1..Len(c.frames) |-> Ev("close", i - 1, 0)])],
     canvas |-> cv,
     closed |-> cl \cup BitmapIds(c.frames)]

\* lines 58-63: interpolate, render, blur, createImageBitmap(canvas), await
LoopFrameSkew(s, c, cl) ==
    LET img == AnimImage(c.seed, c.landmarks, c.f + 1, c.totalFrames)
    IN  [call |-> [c EXCEPT !.pc = "awaitBitmap",
                            !.pending = <<[id |-> <<s, c.f>>, img |-> img]>>,
                            !.log = Logged(c, <<Ev("check", c.f, 0),
                                          Ev("eval", c.f + 1, c.totalFrames),
                                          Ev("render", c.f + 1, c.totalFrames),
                                          Ev("apply", 0, 0),
                                          Ev("capture", c.f, 0)>>)],
         canvas |-> img, closed |-> cl]

LoopFrame(s, c, cl) ==
    LET img == AnimImage(c.seed, c.landmarks, c.f, c.totalFrames)
    IN  [call |-> [c EXCEPT !.pc = "awaitBitmap",
                            !.pending = <<[id |-> <<s, c.f>>, img |-> img]>>,
                            !.log = Logged(c, <<Ev("check", c.f, 0),
                                          Ev("eval", c.f, c.totalFrames),
                                          Ev("render", c.f, c.totalFrames),
                                          Ev("apply", 0, 0),
                                          Ev("capture", c.f, 0)>>)],
         canvas |-> img, closed |-> cl]

\* a loop that consults isCancelled only after the frame has been rendered
LoopFromMidFrame(s, c, cv, cl, cancelled) ==
    IF c.f >= c.totalFrames
    THEN [call |-> [c EXCEPT !.pc = "returned", !.result = "frames"],
          canvas |-> cv, closed |-> cl]
    ELSE IF cancelled
    THEN LET img == AnimImage(c.seed, c.landmarks, c.f, c.totalFrames)
             c1 == [c EXCEPT !.log = Logged(c, <<Ev("eval", c.f, c.totalFrames),
                                           Ev("render", c.f, c.totalFrames)>>)]
         IN  LoopCancel(c1, img, cl)
    ELSE LoopFrame(s, c, cl)

\* lines 52-72 from the loop test for index c.f up to the next await or return;
\* cancelled is what isCancelled() answers if it is consulted
LoopFrom(s, c, cv, cl, cancelled) ==
    IF c.f >= c.totalFrames
    THEN [call |-> [c EXCEPT !.pc = "returned", !.result = "frames"],
          canvas |-> cv, closed |-> cl]
    ELSE IF cancelled
    THEN LoopCancel(c, cv, cl)
    ELSE LoopFrame(s, c, cl)

\* lines 36-47 with fewer than 2 landmarks: nothing checks the list; the blur
\* accumulator is switched and cleared, the first evalAspectsAt answers null
\* (interpolation.js line 36) and renderWith(seed, null) throws a TypeError in
\* deriveParams (renderer.js line 111, params.js line 8) before it draws
PreRenderTooFew(c0, cv, cl) ==
    [call |-> [c0 EXCEPT !.pc = "threw", !.result = "error",
                         !.log = Logged(c0, <<Ev("setEnabled", 1, 0), Ev("clear", 0, 0),
                                       Ev("eval", PreT(PRE_ROLL_FRAMES, c0.totalFrames),
                                          c0.totalFrames),
                                       Ev("throw", 0, 0)>>)],
     canvas |-> cv, closed |-> cl]

\* lines 36-63: the call up to its first await
PreRenderStart(s, landmarks, seed, durationMs, fps, trace, cv, cl, cancelled) ==
    IF Len(landmarks) < 2
    THEN PreRenderTooFew([IdleCall EXCEPT !.pc = "running", !.landmarks = landmarks,
                                          !.seed = seed, !.durationMs = durationMs,
                                          !.fps = fps, !.trace = trace,
                                          !.totalFrames = TotalFrames(durationMs, fps)],
                         cv, cl)
    ELSE
    LET total == TotalFrames(durationMs, fps)
        lastPre == AnimImage(seed, landmarks, PreT(1, total), total)
        c0 == [pc |-> "running", landmarks |-> landmarks, seed |-> seed,
               durationMs |-> durationMs, fps |-> fps, totalFrames |-> total,
               f |-> 0, frames |-> <<>>, pending |-> <<>>, trace |-> trace,
               log |-> IF trace
                       THEN <<Ev("setEnabled", 1, 0), Ev("clear", 0, 0)>>
                            \o PreRollLog(total)
                       ELSE <<>>,
               result |-> "none"]
    IN  LoopFrom(s, c0, lastPre, cl, cancelled)

\* lines 63-70: createImageBitmap has resolved
PreRenderAfterBitmap(s, c, cv, cl, cancelled) ==
    LET c1 == [c EXCEPT !.frames = @ \o c.pending,
                        !.pending = <<>>,
                        !.log = Logged(c, <<Ev("push", c.f, 0),
                                      Ev("progress", c.f + 1, c.totalFrames)>>)]
    IN  IF c.f % 4 = 3
        THEN [call |-> [c1 EXCEPT !.pc = "awaitYield",
                                  !.log = Logged(c1, <<Ev("yield", c.f, 0)>>)],
              canvas |-> cv, closed |-> cl]
        ELSE LoopFrom(s, [c1 EXCEPT !.f = @ + 1], cv, cl, cancelled)

\* line 69 resumed: the setTimeout(0) yield has elapsed
PreRenderAfterYield(s, c, cv, cl, cancelled) ==
    LoopFrom(s, [c EXCEPT !.f = @ + 1], cv, cl, cancelled)

(***************************************************************************)
(* SpecPre: one preRenderFrames call, arguments drawn in PreInit            *)
(***************************************************************************)
PreArgs(d, r) ==
    [IdleCall EXCEPT !.landmarks = <<"a", "b">>, !.seed = <<"a", "b">>,
                     !.durationMs = d, !.fps = r]

AppQuiet ==
    /\ currentMode = "anim"
    /\ loopLandmarks = <<>>
    /\ loopDurationMs = 1000
    /\ frameBuffer = EmptyBuffer
    /\ renderBtnDisabled = FALSE
    /\ exportBtnDisabled = TRUE
    /\ playing = FALSE
    /\ ctlFrames = <<>>
    /\ ctlDurationMs = 0
    /\ live = {}

PreInit ==
    /\ \E d \in PreDurations, r \in PreFps :
          calls = [s \in Slots |-> IF s = 1 THEN PreArgs(d, r) ELSE IdleCall]
    /\ closed = {}
    /\ canvas = Blank
    /\ exp = IdleExport
    /\ itp = IdleInterp
    /\ prm = IdleParams
    /\ rnd = IdleRender
    /\ raf = IdleRaf
    /\ ldr = IdleLoader
    /\ thq = IdleThumbs
    /\ AppQuiet

PreApply(eff) ==
    /\ calls' = [calls EXCEPT ![1] = eff.call]
    /\ canvas' = eff.canvas
    /\ closed' = eff.closed
    /\ UNCHANGED <<appVars, offPage>>

PreInvoke ==
    /\ calls[1].pc = "idle"
    /\ \E cancelled \in BOOLEAN :
          PreApply(PreRenderStart(1, calls[1].landmarks, calls[1].seed,
                                  calls[1].durationMs, calls[1].fps,
                                  TRUE, canvas, closed, cancelled))

PreBitmapReady ==
    /\ calls[1].pc = "awaitBitmap"
    /\ \E cancelled \in BOOLEAN :
          PreApply(PreRenderAfterBitmap(1, calls[1], canvas, closed, cancelled))

PreYieldDone ==
    /\ calls[1].pc = "awaitYield"
    /\ \E cancelled \in BOOLEAN :
          PreApply(PreRenderAfterYield(1, calls[1], canvas, closed, cancelled))

PreNext == PreInvoke \/ PreBitmapReady \/ PreYieldDone

SpecPre == PreInit /\ [][PreNext]_vars

\* the same call with a landmark list of any length from 0 up
PreInitAnyList ==
    /\ \E d \in PreDurations, r \in PreFps, n \in 0..MaxLandmarks :
          calls = [s \in Slots |->
                     IF s = 1
                     THEN [PreArgs(d, r) EXCEPT !.landmarks = [i \in 1..n |-> "a"]]
                     ELSE IdleCall]
    /\ closed = {}
    /\ canvas = Blank
    /\ exp = IdleExport
    /\ itp = IdleInterp
    /\ prm = IdleParams
    /\ rnd = IdleRender
    /\ raf = IdleRaf
    /\ ldr = IdleLoader
    /\ thq = IdleThumbs
    /\ AppQuiet

SpecPreAnyList == PreInitAnyList /\ [][PreNext]_vars

(***************************************************************************)
(* The page (main.js): frame buffer, mode switch, render button, slider,    *)
(* loop list.  Controls of the animation section act only in 'anim' mode,   *)
(* where that section is shown.                                             *)
(***************************************************************************)

\* lines 549-557: the loop list with the names that have a stored profile
InProfiles(name) == name \in ProfileNames
GetLandmarkAspectsOrdered(names) == SelectSeq(names, InProfiles)

\* lines 559-564
DeriveAnimSeed(names) ==
    IF GetLandmarkAspectsOrdered(names) = <<>>
    THEN <<"anim-seed">>
    ELSE <<"anim">> \o GetLandmarkAspectsOrdered(names)

\* lines 360-366: the buffer fields after invalidateFrameBuffer (rendering is
\* not among the fields it resets)
Invalidated(fb) ==
    [fb EXCEPT !.frames = <<>>, !.rendered = FALSE, !.durationMs = 0, !.seed = <<>>]

\* lines 358-378: invalidateFrameBuffer as the last effect of a handler that
\* has already set the loop list and duration
InvalidateFrameBuffer ==
    /\ playing' = FALSE
    /\ closed' = closed \cup BitmapIds(frameBuffer.frames)
    /\ frameBuffer' = Invalidated(frameBuffer)
    /\ exportBtnDisabled' = TRUE
    /\ renderBtnDisabled' = FALSE
    /\ UNCHANGED <<calls, canvas, currentMode, ctlFrames,
                   ctlDurationMs, live, offPage>>

\* a call slot can take a new activation when its last one has finished and
\* none of its bitmaps is still open or referenced
SlotIds(s) == BitmapIds(calls[s].frames)
SlotFree(s, cl) ==
    /\ calls[s].pc \in {"idle", "done"}
    /\ SlotIds(s) \subseteq cl
    /\ SlotIds(s) \cap BitmapIds(ctlFrames) = {}

Init ==
    /\ currentMode = "image"
    /\ loopLandmarks = <<>>
    /\ loopDurationMs \in {1000 * secs : secs \in DurationSecs}
    /\ frameBuffer = EmptyBuffer
    /\ renderBtnDisabled = FALSE
    /\ exportBtnDisabled = TRUE
    /\ playing = FALSE
    /\ ctlFrames = <<>>
    /\ ctlDurationMs = 0
    /\ live = {}
    /\ calls = [s \in Slots |-> IdleCall]
    /\ closed = {}
    /\ canvas = StillImage
    /\ exp = IdleExport
    /\ itp = IdleInterp
    /\ prm = IdleParams
    /\ rnd = IdleRender
    /\ raf = IdleRaf
    /\ ldr = IdleLoader
    /\ thq = IdleThumbs

\* lines 611-638, 663-668: setMode('image')
SetModeImage ==
    /\ currentMode' = "image"
    /\ playing' = FALSE
    /\ canvas' = StillImage
    /\ exportBtnDisabled' = TRUE
    /\ renderBtnDisabled' = FALSE
    /\ UNCHANGED <<calls, closed, loopLandmarks, loopDurationMs, frameBuffer,
                   ctlFrames, ctlDurationMs, live, offPage>>

\* lines 611-627, 639-668: setMode('anim')
SetModeAnim ==
    /\ currentMode' = "anim"
    /\ IF frameBuffer.rendered
       THEN /\ canvas' = IF Len(frameBuffer.frames) > 0
                         THEN frameBuffer.frames[1].img ELSE canvas
            /\ exportBtnDisabled' = FALSE
            /\ IF Len(frameBuffer.frames) = 0
               THEN UNCHANGED <<playing, ctlFrames, ctlDurationMs>>
               ELSE /\ playing' = TRUE
                    /\ ctlFrames' = frameBuffer.frames
                    /\ ctlDurationMs' = frameBuffer.durationMs
       ELSE /\ exportBtnDisabled' = TRUE
            /\ UNCHANGED <<canvas, playing, ctlFrames, ctlDurationMs>>
    /\ UNCHANGED <<calls, closed, loopLandmarks, loopDurationMs, frameBuffer,
                   renderBtnDisabled, live, offPage>>

\* lines 685-692: render button in image mode
RenderClickImage ==
    /\ ~renderBtnDisabled
    /\ currentMode = "image"
    /\ canvas' = StillImage
    /\ exportBtnDisabled' = FALSE
    /\ UNCHANGED <<calls, closed, currentMode, loopLandmarks,
                   loopDurationMs, frameBuffer, renderBtnDisabled, playing,
                   ctlFrames, ctlDurationMs, live, offPage>>

\* lines 693-723: render button in animation mode, up to the first await
\* inside preRenderFrames; with fewer than 2 landmarks only a toast
RenderClickAnim ==
    /\ ~renderBtnDisabled
    /\ currentMode = "anim"
    /\ LET landmarks == GetLandmarkAspectsOrdered(loopLandmarks)
           cl1 == closed \cup BitmapIds(frameBuffer.frames)
       IN  IF Len(landmarks) < 2
           THEN UNCHANGED vars
           ELSE \E s \in Slots :
                  /\ SlotFree(s, cl1)
                  /\ \A u \in Slots : SlotFree(u, cl1) => s <= u
                  /\ LET eff == PreRenderStart(s, landmarks, DeriveAnimSeed(loopLandmarks),
                                               loopDurationMs, ANIM_FPS, FALSE,
                                               canvas, cl1 \ SlotIds(s), FALSE)
                     IN  /\ calls' = [calls EXCEPT ![s] = eff.call]
                         /\ canvas' = eff.canvas
                         /\ closed' = eff.closed
                  /\ live' = live \cup {s}
                  /\ playing' = FALSE
                  /\ frameBuffer' = [Invalidated(frameBuffer) EXCEPT !.rendering = TRUE]
                  /\ renderBtnDisabled' = TRUE
                  /\ exportBtnDisabled' = TRUE
                                /\ UNCHANGED <<currentMode, loopLandmarks, loopDurationMs,
                                 ctlFrames, ctlDurationMs, offPage>>

\* lines 725-757: the click handler after preRenderFrames has returned
HandlerAfterPreRender(s, eff) ==
    LET c == eff.call
    IN  /\ calls' = [calls EXCEPT ![s] = [c EXCEPT !.pc = "done"]]
        /\ live' = live \ {s}
        /\ closed' = eff.closed
        /\ renderBtnDisabled' = FALSE
        /\ IF c.result = "null"
           THEN /\ frameBuffer' = [frameBuffer EXCEPT !.rendering = FALSE]
                /\ canvas' = eff.canvas
                /\ UNCHANGED <<exportBtnDisabled, playing, ctlFrames, ctlDurationMs>>
           ELSE /\ frameBuffer' = [frames |-> c.frames, rendered |-> TRUE,
                                   durationMs |-> loopDurationMs, seed |-> c.seed,
                                   rendering |-> FALSE]
                /\ exportBtnDisabled' = FALSE
                /\ canvas' = IF Len(c.frames) > 0 THEN c.frames[1].img ELSE eff.canvas
                /\ IF Len(c.frames) = 0
                   THEN UNCHANGED <<playing, ctlFrames, ctlDurationMs>>
                   ELSE /\ playing' = TRUE
                        /\ ctlFrames' = c.frames
                        /\ ctlDurationMs' = loopDurationMs
        /\ UNCHANGED <<currentMode, loopLandmarks, loopDurationMs, offPage>>

\* a preRenderFrames segment inside the click handler; isCancelled is
\* !frameBuffer.rendering (line 722)
HandlerSegment(s, eff) ==
    IF eff.call.pc = "returned"
    THEN HandlerAfterPreRender(s, eff)
    ELSE /\ calls' = [calls EXCEPT ![s] = eff.call]
         /\ canvas' = eff.canvas
         /\ closed' = eff.closed
         /\ UNCHANGED <<appVars, offPage>>

\* the event loop resumes a call whose createImageBitmap promise resolved
BitmapReady(s) ==
    /\ calls[s].pc = "awaitBitmap"
    /\ HandlerSegment(s, PreRenderAfterBitmap(s, calls[s], canvas, closed,
                                              ~frameBuffer.rendering))

\* the event loop resumes a call whose setTimeout(0) yield elapsed
YieldDone(s) ==
    /\ calls[s].pc = "awaitYield"
    /\ HandlerSegment(s, PreRenderAfterYield(s, calls[s], canvas, closed,
                                             ~frameBuffer.rendering))

\* lines 600-605: duration slider
DurationInput(secs) ==
    /\ currentMode = "anim"
    /\ loopDurationMs' = secs * 1000
    /\ UNCHANGED loopLandmarks
    /\ InvalidateFrameBuffer

\* lines 1142-1149 (also the gallery Add button, lines 913-919)
AddToLoop(name) ==
    /\ currentMode = "anim"
    /\ Len(loopLandmarks) < MaxLandmarks
    /\ loopLandmarks' = Append(loopLandmarks, name)
    /\ UNCHANGED loopDurationMs
    /\ InvalidateFrameBuffer

\* lines 1151-1157
ClearLoop ==
    /\ currentMode = "anim"
    /\ loopLandmarks' = <<>>
    /\ UNCHANGED loopDurationMs
    /\ InvalidateFrameBuffer

\* lines 574-578: remove button of loop-list entry idx
RemoveLandmark(idx) ==
    /\ currentMode = "anim"
    /\ idx \in 1..Len(loopLandmarks)
    /\ loopLandmarks' = [i \in 1..(Len(loopLandmarks) - 1) |->
                            IF i < idx THEN loopLandmarks[i] ELSE loopLandmarks[i + 1]]
    /\ UNCHANGED loopDurationMs
    /\ InvalidateFrameBuffer

\* lines 569-573: drag entry idx to the front of the loop list
ReorderLandmarks(idx) ==
    /\ currentMode = "anim"
    /\ idx \in 2..Len(loopLandmarks)
    /\ loopLandmarks' = [i \in 1..Len(loopLandmarks) |->
                            IF i = 1 THEN loopLandmarks[idx]
                            ELSE IF i <= idx THEN loopLandmarks[i - 1]
                            ELSE loopLandmarks[i]]
    /\ UNCHANGED loopDurationMs
    /\ InvalidateFrameBuffer

Next ==
    \/ SetModeImage
    \/ SetModeAnim
    \/ RenderClickImage
    \/ RenderClickAnim
    \/ \E s \in Slots : BitmapReady(s)
    \/ \E s \in Slots : YieldDone(s)
    \/ \E secs \in DurationSecs : DurationInput(secs)
    \/ \E name \in ProfileNames : AddToLoop(name)
    \/ ClearLoop
    \/ \E idx \in 1..MaxLandmarks : RemoveLandmark(idx)
    \/ \E idx \in 1..MaxLandmarks : ReorderLandmarks(idx)

Spec == Init /\ [][Next]_vars

(***************************************************************************)
(* exportFromBuffer (part_000 lines 174-294)                                *)
(***************************************************************************)

\* a sync frame every fps frames instead of every fps * 2
EncodedFrameKeyEveryFps(e, f) ==
    [f |-> f, timestamp |-> f * e.frameDurationUs, duration |-> e.frameDurationUs,
     key |-> (f % e.fps = 0), src |-> e.frames[f + 1].id]

\* lines 241-245: what encoder.encode receives for frame index f
EncodedFrame(e, f) ==
    [f |-> f, timestamp |-> f * e.frameDurationUs, duration |-> e.frameDurationUs,
     key |-> (f % (e.fps * 2) = 0), src |-> e.frames[f + 1].id]

\* an entry numbered from one
PngEntryFromOne(e, f) == [index |-> f + 1, blob |-> e.frames[f + 1].id]

\* line 286: the entry pushed for frame index f
PngEntry(e, f) == [index |-> f, blob |-> e.frames[f + 1].id]

\* line 293
PngReturn(e) ==
    [e EXCEPT !.pc = "returned",
              !.result = [kind |-> "frames", blobSize |-> 0, ext |-> "",
                          frames |-> e.png, totalFrames |-> e.totalFrames]]

\* lines 272-285: _exportBufferViaPng up to its first await
PngStart(e) ==
    LET e0 == [e EXCEPT !.f = 0, !.png = <<>>]
    IN  IF 0 < e0.totalFrames THEN [e0 EXCEPT !.pc = "pngBlob"] ELSE PngReturn(e0)

\* a catch block that lets the error escape
StreamCatchRethrow(e, kind) ==
    [e EXCEPT !.fault = kind, !.encoderClosed = TRUE, !.pc = "threw",
              !.result = [NoResult EXCEPT !.kind = "error"]]

\* lines 264-268 then 182-186: catch, close the encoder, return null, fall back
StreamCatch(e, kind) ==
    PngStart([e EXCEPT !.fault = kind, !.encoderClosed = TRUE])

\* index of the last frame encoded before the next yield or the end
SegEnd(f0, total) == Min(total - 1, f0 + (7 - (f0 % 8)))

\* lines 240-253: the streaming loop from index e.f to its next await;
\* faultAt is the index at which the host throws (-1: it does not)
StreamFrom(e, faultAt) ==
    IF e.f >= e.totalFrames
    THEN [e EXCEPT !.pc = "flush"]
    ELSE LET last == SegEnd(e.f, e.totalFrames)
         IN  IF faultAt \in e.f..last
             THEN StreamCatch([e EXCEPT !.encoded = @ \o
                                  [i \in 1..(faultAt - e.f) |-> EncodedFrame(e, e.f + i - 1)]],
                              "stream")
             ELSE LET e1 == [e EXCEPT !.encoded = @ \o
                                  [i \in 1..(last - e.f + 1) |-> EncodedFrame(e, e.f + i - 1)],
                                      !.f = last]
                  IN  IF last % 8 = 7
                      THEN [e1 EXCEPT !.pc = "streamYield"]
                      ELSE [e1 EXCEPT !.pc = "flush", !.f = last + 1]

\* lines 214-237: muxer, encoder, configure; outside the try block
Setup(e, setupFault, faultAt) ==
    IF setupFault # "none"
    THEN [e EXCEPT !.fault = setupFault, !.pc = "threw",
                   !.result = [NoResult EXCEPT !.kind = "error"]]
    ELSE StreamFrom([e EXCEPT !.f = 0], faultAt)

\* a probe loop without the break: a supported candidate is recorded and the
\* next one is probed all the same
ProbedNoBreak(e, outcome, setupFault, faultAt) ==
    LET e1 == [e EXCEPT !.probed = Append(@, [cand |-> e.ci, outcome |-> outcome])]
        e2 == IF outcome = "supported" THEN [e1 EXCEPT !.chosen = e.ci] ELSE e1
    IN  IF e.ci < NumCandidates
        THEN [e2 EXCEPT !.ci = @ + 1, !.pc = "probe"]
        ELSE IF e2.chosen # 0
        THEN Setup(e2, setupFault, faultAt)
        ELSE PngStart(e2)

\* lines 199-212: one isConfigSupported answer (or throw) for candidate e.ci
Probed(e, outcome, setupFault, faultAt) ==
    LET e1 == [e EXCEPT !.probed = Append(@, [cand |-> e.ci, outcome |-> outcome])]
    IN  IF outcome = "supported"
        THEN Setup([e1 EXCEPT !.chosen = e.ci], setupFault, faultAt)
        ELSE IF e.ci < NumCandidates
        THEN [e1 EXCEPT !.ci = @ + 1, !.pc = "probe"]
        ELSE PngStart(e1)

\* a finish that returns whatever payload the muxer produced
FlushedNoSanity(e, outcome, size) ==
    IF outcome # "ok"
    THEN StreamCatch(e, outcome)
    ELSE [e EXCEPT !.pc = "returned", !.encoderClosed = TRUE, !.finalSize = size,
                   !.result = [kind |-> "video", blobSize |-> size, ext |-> "mp4",
                               frames |-> <<>>, totalFrames |-> e.totalFrames]]

\* lines 253-262: flush resolved or a step of finishing threw; size is the
\* byte length of the finalized payload
Flushed(e, outcome, size) ==
    IF outcome # "ok"
    THEN StreamCatch(e, outcome)
    ELSE IF size < SanityBytes
    THEN PngStart([e EXCEPT !.encoderClosed = TRUE, !.finalSize = size])
    ELSE [e EXCEPT !.pc = "returned", !.encoderClosed = TRUE, !.finalSize = size,
                   !.result = [kind |-> "video", blobSize |-> size, ext |-> "mp4",
                               frames |-> <<>>, totalFrames |-> e.totalFrames]]

\* a frame duration truncated to whole microseconds
FrameDurationUsFloor(fps) == 1000000 \div fps

\* line 177: Math.round(1_000_000 / fps)
FrameDurationUs(fps) == MathRound(1000000, fps)

\* lines 174-186 up to the first await
ExportStart(e) ==
    LET e1 == [e EXCEPT !.totalFrames = Len(e.frames),
                        !.frameDurationUs = FrameDurationUs(e.fps)]
    IN  IF e.hostCodec
        THEN [e1 EXCEPT !.pc = "probe", !.ci = 1]
        ELSE PngStart(e1)

(***************************************************************************)
(* SpecExport: one exportFromBuffer call, arguments and host drawn in Init  *)
(***************************************************************************)
ExportFrames(n) == [i \in 1..n |-> [id |-> <<0, i - 1>>, img |-> Blank]]

ExpInit ==
    /\ \E n \in 0..MaxExportFrames, r \in ExportFps, h \in BOOLEAN :
          exp = [IdleExport EXCEPT !.frames = ExportFrames(n), !.fps = r,
                                   !.hostCodec = h]
    /\ calls = [s \in Slots |-> IdleCall]
    /\ closed = {}
    /\ canvas = Blank
    /\ itp = IdleInterp
    /\ prm = IdleParams
    /\ rnd = IdleRender
    /\ raf = IdleRaf
    /\ ldr = IdleLoader
    /\ thq = IdleThumbs
    /\ AppQuiet

ExpFrame == UNCHANGED <<calls, closed, canvas, appVars, itp, prm, rnd, raf,
                 ldr, thq>>

ExpInvoke ==
    /\ exp.pc = "idle"
    /\ exp' = ExportStart(exp)
    /\ ExpFrame

ExpProbe ==
    /\ exp.pc = "probe"
    /\ \E outcome \in {"supported", "unsupported", "throws"},
          setupFault \in {"none", "muxer", "encoder", "configure"},
          faultAt \in -1..(MaxExportFrames - 1) :
          exp' = Probed(exp, outcome, setupFault, faultAt)
    /\ ExpFrame

ExpStreamYield ==
    /\ exp.pc = "streamYield"
    /\ \E faultAt \in -1..(MaxExportFrames - 1) :
          exp' = StreamFrom([exp EXCEPT !.f = @ + 1], faultAt)
    /\ ExpFrame

ExpFlush ==
    /\ exp.pc = "flush"
    /\ \E outcome \in {"ok", "flush", "close", "finalize"}, size \in BlobSizes :
          exp' = Flushed(exp, outcome, size)
    /\ ExpFrame

\* lines 285-290: toBlob resolved
ExpPngBlob ==
    /\ exp.pc = "pngBlob"
    /\ exp' = [exp EXCEPT !.png = Append(@, PngEntry(exp, exp.f)), !.pc = "pngYield"]
    /\ ExpFrame

\* lines 290, 281-285: the yield elapsed; next frame or return
ExpPngYield ==
    /\ exp.pc = "pngYield"
    /\ exp' = IF exp.f + 1 < exp.totalFrames
              THEN [exp EXCEPT !.f = @ + 1, !.pc = "pngBlob"]
              ELSE PngReturn([exp EXCEPT !.f = @ + 1])
    /\ ExpFrame

ExpNext ==
    \/ ExpInvoke \/ ExpProbe \/ ExpStreamYield \/ ExpFlush
    \/ ExpPngBlob \/ ExpPngYield

SpecExport == ExpInit /\ [][ExpNext]_vars

(***************************************************************************)
(* Properties of exportFromBuffer, stated of SpecExport                    *)
(***************************************************************************)
NoCodecChosen ==
    \/ ~exp.hostCodec
    \/ /\ Len(exp.probed) = NumCandidates
       /\ \A i \in 1..Len(exp.probed) : exp.probed[i].outcome \in {"unsupported", "throws"}

IsFullFrameSequence(r) ==
    /\ r.kind = "frames"
    /\ Len(r.frames) = Len(exp.frames)
    /\ r.totalFrames = Len(exp.frames)
    /\ \A i \in 1..Len(r.frames) :
          /\ r.frames[i].index = i - 1
          /\ r.frames[i].blob = exp.frames[i].id

\* C9: when the host has no video encoder, or every codec probe answered
\* unsupported or threw, the call never fails and returns a frame sequence
\* with one entry per input frame, entry i carrying index i, in order.
C9_FallbackSequence ==
    NoCodecChosen =>
        /\ exp.pc # "threw"
        /\ exp.pc = "returned" => IsFullFrameSequence(exp.result)

C9_Witness ==
    /\ exp.pc = "returned"
    /\ exp.hostCodec
    /\ Len(exp.probed) = NumCandidates
    /\ exp.probed[1].outcome = "throws"
    /\ exp.probed[2].outcome = "unsupported"
    /\ Len(exp.result.frames) >= 3
    /\ IsFullFrameSequence(exp.result)

\* C10: when the host encoder throws while frames are streamed, flushed or
\* finalized, no error leaves exportFromBuffer, no video payload is returned
\* and the result is the frame sequence of all frames from index 0.
C10_EncoderThrowFallsBack ==
    exp.fault \in {"stream", "flush", "close", "finalize"} =>
        /\ exp.pc \in {"pngBlob", "pngYield", "returned"}
        /\ exp.result.kind \in {"none", "frames"}
        /\ exp.result.blobSize = 0
        /\ \A i \in 1..Len(exp.png) : exp.png[i].index = i - 1
        /\ exp.pc = "returned" => IsFullFrameSequence(exp.result)

C10_Witness ==
    /\ exp.pc = "returned"
    /\ exp.fault = "stream"
    /\ Len(exp.encoded) >= 2
    /\ Len(exp.frames) >= 3
    /\ IsFullFrameSequence(exp.result)

\* C11: a finalized video payload below the sanity threshold of 1024 bytes
\* is never returned: a returned video carries at least 1024 bytes, and once
\* a smaller payload has been finalized the call continues on the frame
\* sequence path and returns the frame sequence of all frames.
C11_SmallPayloadFallsBack ==
    /\ exp.result.kind = "video" => exp.result.blobSize >= SanityBytes
    /\ (exp.finalSize >= 0 /\ exp.finalSize < SanityBytes) =>
          /\ exp.pc \in {"pngBlob", "pngYield", "returned"}
          /\ exp.result.kind \in {"none", "frames"}
          /\ exp.pc = "returned" => IsFullFrameSequence(exp.result)

C11_Witness ==
    /\ exp.pc = "returned"
    /\ exp.finalSize = SanityBytes - 1
    /\ exp.fault = "none"
    /\ Len(exp.encoded) = Len(exp.frames)
    /\ Len(exp.frames) >= 2
    /\ IsFullFrameSequence(exp.result)

\* C12: codec candidates are probed in list order; a supported answer ends
\* the probing and selects that candidate; a probe that throws counts as
\* unsupported: the next candidate is probed, or none is chosen after the last.
C12_ProbeOrder ==
    /\ Len(exp.probed) <= NumCandidates
    /\ \A i \in 1..Len(exp.probed) :
          /\ exp.probed[i].cand = i
          /\ exp.probed[i].outcome = "supported" =>
                (i = Len(exp.probed) /\ exp.chosen = i)
          /\ exp.probed[i].outcome = "throws" =>
                /\ exp.chosen # i
                /\ exp.fault # "none" \/ exp.pc # "threw"
                /\ i < NumCandidates =>
                      (Len(exp.probed) > i \/ (exp.pc = "probe" /\ exp.ci = i + 1))
    /\ exp.chosen # 0 =>
          /\ exp.chosen <= Len(exp.probed)
          /\ exp.probed[exp.chosen].outcome = "supported"
    /\ exp.chosen = 0 => exp.encoded = <<>>

C12_Witness ==
    /\ Len(exp.probed) = 2
    /\ exp.probed[1].outcome = "throws"
    /\ exp.probed[2].outcome = "supported"
    /\ exp.chosen = 2
    /\ exp.result.kind = "video"

\* C13: on the video path every frame of the buffer is handed to the encoder
\* exactly once, in index order 0..totalFrames-1, taken from the buffer entry
\* of that index, and frame f is a key frame exactly when f is a multiple of
\* 2 * fps; frame 0 always is.
C13_EncodeOrderAndKeys ==
    /\ Len(exp.encoded) <= exp.totalFrames
    /\ \A i \in 1..Len(exp.encoded) :
          /\ exp.encoded[i].f = i - 1
          /\ exp.encoded[i].src = exp.frames[i].id
          /\ exp.encoded[i].key <=> (\E m \in 0..MaxExportFrames : i - 1 = m * 2 * exp.fps)
    /\ exp.pc = "flush" => Len(exp.encoded) = exp.totalFrames
    /\ exp.result.kind = "video" =>
          /\ Len(exp.encoded) = exp.totalFrames
          /\ exp.totalFrames > 0 => exp.encoded[1].key

C13_Witness ==
    /\ exp.result.kind = "video"
    /\ exp.fps = 1
    /\ Len(exp.encoded) >= 9
    /\ exp.encoded[3].key
    /\ exp.encoded[9].key
    /\ ~exp.encoded[2].key

\* the timestamp of every encoded frame is f * 1000000 / fps rounded to the
\* nearest microsecond
C14_TimestampNearest ==
    \A i \in 1..Len(exp.encoded) :
        exp.encoded[i].timestamp = MathRound(exp.encoded[i].f * 1000000, exp.fps)

\* C14 (amended): timestamps start at 0 and consecutive frames are spaced by
\* the frame duration round(1000000 / fps), the whole number of microseconds
\* nearest to 1000000 / fps; the timestamp of frame f is f times that duration
\* and is within f / 2 microseconds of f * 1000000 / fps.
C14_TimestampSpacing ==
    /\ exp.encoded # <<>> => exp.encoded[1].timestamp = 0
    /\ \A i \in 1..Len(exp.encoded) :
          LET d == exp.encoded[i].duration
              ts == exp.encoded[i].timestamp
              f == exp.encoded[i].f
          IN  /\ 2 * d * exp.fps - 2000000 <= exp.fps
              /\ 2000000 - 2 * d * exp.fps <= exp.fps
              /\ i > 1 => ts - exp.encoded[i - 1].timestamp = d
              /\ 2 * (ts * exp.fps - f * 1000000) <= f * exp.fps
              /\ 2 * (f * 1000000 - ts * exp.fps) <= f * exp.fps

C14_Witness ==
    /\ exp.fps = ANIM_FPS
    /\ Len(exp.encoded) >= 3
    /\ exp.encoded[3].timestamp = 83334
    /\ exp.result.kind = "video"

\* C35: a throw of the muxer constructor, the encoder constructor or
\* configure does not leave exportFromBuffer; the call goes on to the frame
\* sequence.
C35_SetupFailureRecovered ==
    exp.fault \in {"muxer", "encoder", "configure"} => exp.pc # "threw"

(***************************************************************************)
(* Properties of preRenderFrames, stated of SpecPre                        *)
(***************************************************************************)
PreCall == calls[1]
PreLog == PreCall.log
CheckedTrue == \E i \in 1..Len(PreLog) : PreLog[i].op = "check" /\ PreLog[i].b = 1
CapturedIds == {<<1, PreLog[i].a>> : i \in {j \in 1..Len(PreLog) : PreLog[j].op = "capture"}}

\* C1: once isCancelled() has answered true the call has returned null and
\* every frame image captured so far is closed; a call that returned without
\* a true answer returned exactly totalFrames open frames, never fewer.
C1_CancelClosesAll ==
    /\ CheckedTrue =>
          /\ PreCall.pc = "returned"
          /\ PreCall.result = "null"
          /\ CapturedIds \subseteq closed
    /\ (PreCall.pc = "returned" /\ ~CheckedTrue) =>
          /\ PreCall.result = "frames"
          /\ Len(PreCall.frames) = PreCall.totalFrames
          /\ CapturedIds = BitmapIds(PreCall.frames)
          /\ Cardinality(CapturedIds) = PreCall.totalFrames
          /\ CapturedIds \cap closed = {}

C1_Witness ==
    /\ PreCall.pc = "returned"
    /\ PreCall.result = "null"
    /\ Cardinality(CapturedIds) >= 2
    /\ CapturedIds \subseteq closed

IsFrameOp(e) == e.op \in {"eval", "render", "apply", "capture"}
FrameOps == SelectSeq(SubSeq(PreLog, 3 * 12 + 3, Len(PreLog)), IsFrameOp)

\* C5: after the pre-roll the interpolate/render/blur/capture operations come
\* in the order eval(f/totalFrames), render, apply, capture(f) for
\* f = 0, 1, 2, ... with nothing repeated or skipped, and a call that returns
\* frames has done so for every f below totalFrames.
C5_FrameOrder ==
    /\ \A i \in 1..Len(FrameOps) :
          LET f == (i - 1) \div 4
              e == FrameOps[i]
          IN  CASE (i - 1) % 4 = 0 -> e = Ev("eval", f, PreCall.totalFrames)
                [] (i - 1) % 4 = 1 -> e = Ev("render", f, PreCall.totalFrames)
                [] (i - 1) % 4 = 2 -> e = Ev("apply", 0, 0)
                [] OTHER           -> e = Ev("capture", f, 0)
    /\ Len(FrameOps) % 4 = 0
    /\ \A i \in 1..Len(PreCall.frames) :
          /\ PreCall.frames[i].id = <<1, i - 1>>
          /\ PreCall.frames[i].img.num = i - 1
          /\ PreCall.frames[i].img.den = PreCall.totalFrames
    /\ PreCall.result = "frames" => Len(FrameOps) = 4 * PreCall.totalFrames

C5_Witness ==
    /\ PreCall.result = "frames"
    /\ PreCall.totalFrames >= 5
    /\ Len(FrameOps) = 4 * PreCall.totalFrames

\* n = max(1, round(d/1000 * r)) stated without the code's arithmetic:
\* n is 1 below one and a half frames, else the integer within a half of d*r/1000
IsFrameCount(n, d, r) ==
    IF 2 * d * r < 3000
    THEN n = 1
    ELSE 1000 * (2 * n - 1) <= 2 * d * r /\ 2 * d * r < 1000 * (2 * n + 1)

\* C6: a call that is not cancelled returns exactly
\* max(1, round(durationMs/1000 * fps)) frame images, at least one.
C6_FrameCount ==
    PreCall.result = "frames" =>
        /\ Len(PreCall.frames) >= 1
        /\ IsFrameCount(Len(PreCall.frames), PreCall.durationMs, PreCall.fps)

C6_Witness ==
    /\ PreCall.result = "frames"
    /\ PreCall.durationMs = 0
    /\ Len(PreCall.frames) = 1

\* C7: a started call has cleared the accumulator once, then run exactly 12
\* interpolate/render/apply steps with no capture, push or progress among
\* them, so the capture of frame 0 comes after 13 blur applications.
C7_PreRoll ==
    PreCall.pc # "idle" =>
        /\ Len(PreLog) >= 38
        /\ PreLog[1] = Ev("setEnabled", 1, 0)
        /\ PreLog[2] = Ev("clear", 0, 0)
        /\ \A i \in 3..Len(PreLog) : PreLog[i].op # "clear"
        /\ \A k \in 1..12 :
              /\ PreLog[3 * k].op = "eval"
              /\ PreLog[3 * k + 1].op = "render"
              /\ PreLog[3 * k + 2].op = "apply"
        /\ \A i \in 1..Len(PreLog) :
              PreLog[i].op \in {"capture", "push", "progress", "check"} => i > 38
        /\ \A i \in 1..Len(PreLog) :
              PreLog[i] = Ev("capture", 0, 0) =>
                 Cardinality({j \in 1..i : PreLog[j].op = "apply"}) = 13

C7_Witness ==
    /\ PreCall.pc = "awaitBitmap"
    /\ PreCall.f = 0
    /\ PreLog[Len(PreLog)] = Ev("capture", 0, 0)

\* the eval entries of the log, in order
IsEval(e) == e.op = "eval"
EvalOps == SelectSeq(PreLog, IsEval)

\* C33: every time handed to evalAspectsAt is a fraction a/totalFrames with
\* 0 <= a < totalFrames; the k-th pre-roll step (p = 13 - k) uses the time of
\* frame (totalFrames - p) mod totalFrames, each step one frame after the one
\* before it around the loop, and main frame f uses f/totalFrames.
C33_EvalTimesInLoop ==
    /\ \A i \in 1..Len(EvalOps) :
          /\ EvalOps[i].b = PreCall.totalFrames
          /\ EvalOps[i].a \in 0..(PreCall.totalFrames - 1)
          /\ i <= PRE_ROLL_FRAMES =>
                EvalOps[i].a = (PreCall.totalFrames - (PRE_ROLL_FRAMES + 1 - i))
                                   % PreCall.totalFrames
          /\ (1 < i /\ i <= PRE_ROLL_FRAMES) =>
                EvalOps[i].a = (EvalOps[i - 1].a + 1) % PreCall.totalFrames
          /\ i > PRE_ROLL_FRAMES => EvalOps[i].a = i - PRE_ROLL_FRAMES - 1
    /\ PreCall.pc # "idle" => Len(EvalOps) >= PRE_ROLL_FRAMES

\* a loop shorter than the pre-roll, rendered to its end
C33_Witness ==
    /\ PreCall.result = "frames"
    /\ PreCall.totalFrames = 5
    /\ Len(EvalOps) = PRE_ROLL_FRAMES + 5

\* C8: isCancelled is consulted once per frame index, as the first operation
\* of that frame; a false answer is followed at once by eval, render, apply
\* and capture of the same frame, so no rendered frame goes uncaptured.
C8_CheckAtBoundary ==
    /\ \A i, j \in 1..Len(PreLog) :
          (PreLog[i].op = "check" /\ PreLog[j].op = "check" /\ PreLog[i].a = PreLog[j].a)
             => i = j
    /\ \A i \in 39..Len(PreLog) :
          /\ PreLog[i].op = "eval" => PreLog[i - 1] = Ev("check", PreLog[i].a, 0)
          /\ PreLog[i].op = "render" =>
                /\ i + 2 <= Len(PreLog)
                /\ PreLog[i - 1].op = "eval"
                /\ PreLog[i + 1].op = "apply"
                /\ PreLog[i + 2] = Ev("capture", PreLog[i].a, 0)
          /\ (PreLog[i].op = "check" /\ PreLog[i].b = 0) =>
                /\ i + 1 <= Len(PreLog)
                /\ PreLog[i + 1] = Ev("eval", PreLog[i].a, PreCall.totalFrames)
    /\ PreCall.result = "frames" =>
          Cardinality({i \in 1..Len(PreLog) : PreLog[i].op = "check"}) = PreCall.totalFrames

C8_Witness ==
    /\ PreCall.pc = "returned"
    /\ PreCall.result = "null"
    /\ Len(PreCall.frames) >= 1
    /\ PreLog[Len(PreLog) - Len(PreCall.frames)] = Ev("check", Len(PreCall.frames), 1)

C2_OneLiveSession == Cardinality(live) <= 1

\* C3: a frame buffer marked rendered holds open frames that were produced
\* from the landmark list and the loop duration now in effect.
C3_RenderedIsCurrent ==
    frameBuffer.rendered =>
        /\ Len(frameBuffer.frames) = TotalFrames(loopDurationMs, ANIM_FPS)
        /\ \A i \in 1..Len(frameBuffer.frames) :
              /\ frameBuffer.frames[i].img.lm = GetLandmarkAspectsOrdered(loopLandmarks)
              /\ frameBuffer.frames[i].img.den = TotalFrames(loopDurationMs, ANIM_FPS)
              /\ frameBuffer.frames[i].id \notin closed

\* C4: while the page stays in image mode the playback controller is not
\* playing and nothing but a still render changes the shared canvas.
C4_ImageModeQuiet ==
    [][currentMode' = "image" =>
          /\ ~playing'
          /\ (currentMode = "image" /\ canvas' # canvas) => canvas'.kind = "still"]_vars

\* C27: no frame image leaks: every image captured by a preRenderFrames call
\* whose click handler has finished is held in frameBuffer.frames or has
\* been closed.
C27_NoFrameLeak ==
    \A s \in Slots :
        calls[s].pc = "done" =>
            SlotIds(s) \subseteq (BitmapIds(frameBuffer.frames) \cup closed)

\* C29: a frame buffer marked rendered is non-empty, holds
\* max(1, round(durationMs / 1000 * 24)) frames for its own durationMs, and
\* its seed is the seed every one of its frames was rendered with.
C29_RenderedBufferShape ==
    frameBuffer.rendered =>
        /\ frameBuffer.frames # <<>>
        /\ Len(frameBuffer.frames) = TotalFrames(frameBuffer.durationMs, ANIM_FPS)
        /\ \A i \in 1..Len(frameBuffer.frames) :
              frameBuffer.frames[i].img.seed = frameBuffer.seed

(***************************************************************************)
(* SpecInterp: evalAspectsAt on a landmark list drawn in ItpInit, at loop   *)
(* times k / TimeGrid in [0, 1)                                             *)
(***************************************************************************)
MaxInterpLandmarks == 4
TimeGrid == 60
AspectValues == {0, (3 * Unit) \div 10, Unit}

\* the aspect-set of a landmark: its fields cover both ends of the range
AspectsOf(v) ==
    [k \in Fields |->
        IF k \in {"coherence", "recursion", "vulnerability"} THEN v ELSE Unit - v]

LandmarkLists ==
    UNION {[1..n -> {[aspects |-> AspectsOf(v)] : v \in AspectValues}] :
             n \in 0..MaxInterpLandmarks}

ItpInit ==
    /\ \E lms \in LandmarkLists : itp = [IdleInterp EXCEPT !.landmarks = lms]
    /\ calls = [s \in Slots |-> IdleCall]
    /\ closed = {}
    /\ canvas = Blank
    /\ exp = IdleExport
    /\ prm = IdleParams
    /\ rnd = IdleRender
    /\ raf = IdleRaf
    /\ ldr = IdleLoader
    /\ thq = IdleThumbs
    /\ AppQuiet

\* one evalAspectsAt(k / TimeGrid, landmarks) call
ItpEval ==
    /\ itp.pc # "seam"
    /\ \E k \in 0..(TimeGrid - 1) :
          itp' = [itp EXCEPT !.pc = "done", !.num = k, !.den = TimeGrid,
                             !.out = EvalAspectsAt(k, TimeGrid, itp.landmarks)]
    /\ UNCHANGED <<calls, closed, canvas, appVars, exp, prm, rnd, raf,
                 ldr, thq>>

\* three consecutive frames of a loop of TimeGrid frames across the seam:
\* evalAspectsAt at (TimeGrid - 1) / TimeGrid, at 0 and at 1 / TimeGrid
ItpSeam ==
    /\ itp.pc = "idle"
    /\ itp' = [itp EXCEPT !.pc = "seam",
                          !.seam = <<EvalAspectsAt(TimeGrid - 1, TimeGrid, itp.landmarks),
                                     EvalAspectsAt(0, TimeGrid, itp.landmarks),
                                     EvalAspectsAt(1, TimeGrid, itp.landmarks)>>]
    /\ UNCHANGED <<calls, closed, canvas, appVars, exp, prm, rnd, raf,
                 ldr, thq>>

ItpNext == ItpEval \/ ItpSeam

SpecInterp == ItpInit /\ [][ItpNext]_vars

(***************************************************************************)
(* Properties of evalAspectsAt, stated of SpecInterp                       *)
(***************************************************************************)
ItpN == Len(itp.landmarks)
ItpDone == itp.pc = "done"
InUnitRange(a) == \A k \in Fields : a[k] >= 0 /\ a[k] <= Unit

\* C16: with 0 or 1 landmarks evalAspectsAt answers null at every loop time,
\* reads no landmark entry and takes no quotient or remainder by the count.
C16_TooFewIsNull ==
    (ItpDone /\ ItpN < 2) =>
        /\ itp.out.isNull
        /\ itp.out.reads = <<>>
        /\ itp.out.mods = <<>>

C16_Witness ==
    /\ ItpDone
    /\ ItpN = 1
    /\ itp.num > 0
    /\ itp.out.isNull

C19_ControlIndicesWrap ==
    (ItpDone /\ ItpN >= 3) =>
        LET i1 == ((itp.num * ItpN) \div itp.den) % ItpN
        IN  /\ itp.out.reads = <<(i1 - 1) % ItpN, i1, (i1 + 1) % ItpN,
                                 (i1 + 2) % ItpN>>
            /\ \A j \in 1..4 : itp.out.reads[j] \in 0..(ItpN - 1)
            /\ i1 = ItpN - 1 => (itp.out.reads[3] = 0 /\ itp.out.reads[4] = 1)
            /\ i1 = 0 => itp.out.reads[1] = ItpN - 1

C19_Witness ==
    /\ ItpDone
    /\ ItpN = 4
    /\ itp.out.reads = <<2, 3, 0, 1>>

\* C20: for loop times in [0, 1) and at least 2 landmarks with aspect values
\* in [0, 1], every field of the result lies in [0, 1], also where the cubic
\* itself leaves that range.
C20_ResultInUnitRange ==
    (ItpDone /\ ItpN >= 2) =>
        /\ ~itp.out.isNull
        /\ InUnitRange(itp.out.aspects)

C20_Witness ==
    /\ ItpDone
    /\ ItpN >= 3
    /\ LET ix == itp.out.reads
           raw == CatmullRom(itp.landmarks[ix[1] + 1].aspects.coherence,
                             itp.landmarks[ix[2] + 1].aspects.coherence,
                             itp.landmarks[ix[3] + 1].aspects.coherence,
                             itp.landmarks[ix[4] + 1].aspects.coherence,
                             itp.out.blend)
       IN  /\ raw < 0
           /\ itp.out.aspects.coherence = 0
           /\ itp.out.aspects.tension = Unit

Abs(x) == IF x >= 0 THEN x ELSE 0 - x

\* the largest difference taken for equal slopes over one frame step, and
\* the largest step taken for a continuous value, in fixed-point units
SeamSlopeTol == Unit \div 300
SeamJumpTol == Unit \div 50

\* C21: across the loop seam the path is continuous in value and slope: from
\* the last frame of a loop to frame 0 every field moves by a small step
\* only, the step into frame 0 and the step out of it agree (one-sided
\* difference quotients over 1 / TimeGrid), and with two landmarks both
\* steps are zero up to the tolerance.
C21_SeamSmooth ==
    (itp.pc = "seam" /\ ItpN >= 2) =>
        \A k \in Fields :
            LET before == itp.seam[1].aspects[k]
                at == itp.seam[2].aspects[k]
                after == itp.seam[3].aspects[k]
            IN  /\ Abs(at - before) <= SeamJumpTol
                /\ Abs((at - before) - (after - at)) <= SeamSlopeTol
                /\ ItpN = 2 => /\ Abs(at - before) <= SeamSlopeTol
                               /\ Abs(after - at) <= SeamSlopeTol

(***************************************************************************)
(* SpecParams: one deriveParams call on aspects and rng outputs drawn in    *)
(* PrmInit                                                                  *)
(***************************************************************************)
RngValues == {0, Unit \div 2, Unit - 1}

PrmInit ==
    /\ \E a \in [Fields -> AspectValues], rs \in [1..3 -> RngValues] :
          prm = [IdleParams EXCEPT !.aspects = a, !.rs = rs]
    /\ calls = [s \in Slots |-> IdleCall]
    /\ closed = {}
    /\ canvas = Blank
    /\ exp = IdleExport
    /\ itp = IdleInterp
    /\ rnd = IdleRender
    /\ raf = IdleRaf
    /\ ldr = IdleLoader
    /\ thq = IdleThumbs
    /\ AppQuiet

PrmCall ==
    /\ prm.pc = "idle"
    /\ prm' = [pc |-> "done", aspects |-> prm.aspects, rs |-> prm.rs,
               out |-> DeriveParams(prm.aspects, prm.rs)]
    /\ UNCHANGED <<calls, closed, canvas, appVars, exp, itp, rnd, raf,
                 ldr, thq>>

PrmNext == PrmCall

SpecParams == PrmInit /\ [][PrmNext]_vars

PrmDone == prm.pc = "done"
UnitFields == {"symmetry", "fracture", "density", "flow", "lum", "bleed",
               "edgeSharpness", "multiAxis", "shardAlpha"}
IsFloorOf(count, float) ==
    /\ count >= 0
    /\ count * Unit <= float
    /\ float < (count + 1) * Unit

\* C22: for aspect values in [0, 1] and rng outputs in [0, 1), deriveParams
\* returns symmetry, fracture, density, flow, lum, bleed, edgeSharpness,
\* multiAxis and shardAlpha in [0, 1], hue in [0, 360), and each integer count
\* equal to the floor of its float count.
C22_ParamsInBounds ==
    PrmDone =>
        /\ \A k \in UnitFields : prm.out[k] >= 0 /\ prm.out[k] <= Unit
        /\ prm.out.hue >= 0 /\ prm.out.hue < 360 * HueUnit
        /\ IsFloorOf(prm.out.nodeCount, prm.out.nodeCountF)
        /\ IsFloorOf(prm.out.shardLayers, prm.out.shardLayersF)
        /\ IsFloorOf(prm.out.shardsPerLayer, prm.out.shardsPerLayerF)

C22_Witness ==
    /\ PrmDone
    /\ prm.out.nodeCountF > prm.out.nodeCount * Unit
    /\ prm.out.symmetry > 0 /\ prm.out.symmetry < Unit
    /\ prm.out.multiAxis = Unit
    /\ prm.out.bleed = 0
    /\ prm.out.hue > 300 * HueUnit

\* C23: every deriveParams call makes exactly three rng draws, whatever the
\* aspect values; both hue candidates are drawn for every radiance.
C23_ThreeDraws ==
    PrmDone => prm.out.drawn = 3

C23_Witness ==
    /\ PrmDone
    /\ prm.aspects.radiance = 0
    /\ prm.out.drawn = 3


(***************************************************************************)
(* SpecRng: two generators built independently from one seed string, as     *)
(* mulberry32(xmur3(s)()) builds them, and drawn from in any order.          *)
(***************************************************************************)
MaxSeedLen == 2
MaxDraws == 3
SeedChars == {97, 98, 946}
Seeds == UNION {[1..n -> SeedChars] : n \in 0..MaxSeedLen}

\* mulberry32(xmur3(str)()): a fresh closure over its own state a
NewStream(str) == [a |-> Xmur3Next(Xmur3(str)).out, outs |-> <<>>]

\* one state shared by every generator: a draw from one advances all
DrawShared(streams, i) ==
    [j \in DOMAIN streams |->
        LET r == Mulberry32Next(streams[j].a)
        IN  [a |-> r.a,
             outs |-> IF j = i THEN Append(streams[j].outs, r.out)
                      ELSE streams[j].outs]]

\* a call of generator i: only the a that closure captured advances
DrawFrom(streams, i) ==
    [streams EXCEPT ![i] =
        LET r == Mulberry32Next(@.a)
        IN  [a |-> r.a, outs |-> Append(@.outs, r.out)]]

RngInit ==
    /\ calls = [s \in Slots |-> IdleCall]
    /\ closed = {}
    /\ canvas = Blank
    /\ exp = IdleExport
    /\ itp = IdleInterp
    /\ prm = IdleParams
    /\ raf = IdleRaf
    /\ ldr = IdleLoader
    /\ thq = IdleThumbs
    /\ AppQuiet
    /\ rnd \in {[pc |-> "streams", seed |-> s,
                 streams |-> <<NewStream(s), NewStream(s)>>] : s \in Seeds}

RngDraw ==
    /\ \E i \in 1..2 :
        /\ Len(rnd.streams[i].outs) < MaxDraws
        /\ rnd' = [rnd EXCEPT !.streams = DrawFrom(@, i)]
    /\ UNCHANGED <<calls, closed, canvas, appVars, exp, itp, prm, raf,
                 ldr, thq>>

RngNext == RngDraw

SpecRng == RngInit /\ [][RngNext]_vars

MaxRenders == 3
MaxPhaseDraws == 3
Phases == <<"params", "title", "glow", "node", "shard", "flow", "grain">>
PhaseSet == {Phases[i] : i \in 1..Len(Phases)}
PhaseIx(ph) == CHOOSE i \in 1..Len(Phases) : Phases[i] = ph

\* one generator serves every phase
StreamOfShared(ph) == 1

\* lines 103-109: each phase has the generator seeded for it
StreamOf(ph) == PhaseIx(ph)

\* lines 103-109: the next n outputs of the base generator seed n children
RECURSIVE SeedChildren(_, _)
SeedChildren(base, n) ==
    IF n = 0 THEN <<>>
    ELSE CHOOSE q \in {<<[a |-> r.out, outs |-> <<>>]>> \o SeedChildren(r.a, n - 1) :
                        r \in {Mulberry32Next(base)}} : TRUE

\* generators made once and kept from call to call
StreamsKept(held, seedStr) ==
    IF held = <<>> THEN SeedChildren(NewStream(seedStr).a, Len(Phases))
    ELSE held

\* lines 101-109: every call builds its generators anew from the seed string
StreamsAtEntry(held, seedStr) ==
    SeedChildren(NewStream(seedStr).a, Len(Phases))

\* one call of the generator of phase ph; draws[ph] collects what it returned
TakeOne(st, ph) ==
    LET i == StreamOf(ph)
        s2 == DrawFrom(st.streams, i)
    IN  [st EXCEPT !.streams = s2,
                   !.draws[ph] = Append(@, s2[i].outs[Len(s2[i].outs)])]

\* n calls of the generator of phase ph.  (Binding through a one-element set
\* fixes a value before it is used more than once.)
RECURSIVE Take(_, _, _)
Take(st, ph, n) ==
    IF n <= 0 THEN st
    ELSE CHOOSE r \in {Take(TakeOne(s, ph), ph, n - 1) : s \in {st}} : TRUE

TakeFirst(st, ph, n) == Take(st, ph, Min(n, MaxPhaseDraws - Len(st.draws[ph])))

\* text.js generateTitle: the word each aspect selects
TitleWord(a, k) ==
    LET hi == CASE k = "coherence" -> Dec(82) [] k = "tension" -> Dec(70)
                [] k = "recursion" -> Dec(72) [] k = "motion" -> Dec(70)
                [] k = "vulnerability" -> Dec(70) [] OTHER -> Dec(75)
        lo == CASE k = "coherence" -> Dec(60) [] k = "tension" -> Dec(40)
                [] k = "recursion" -> Dec(42) [] k = "motion" -> Dec(40)
                [] k = "vulnerability" -> Dec(40) [] OTHER -> Dec(50)
    IN  IF a[k] > hi THEN 2 ELSE IF a[k] > lo THEN 1 ELSE 0

\* the eight templates, each the aspects whose words it joins
TitleTemplates ==
    << <<"tension", "recursion">>, <<"radiance", "coherence">>,
       <<"motion", "coherence">>, <<"vulnerability", "recursion">>,
       <<"coherence", "tension">>, <<"radiance", "recursion">>,
       <<"motion", "radiance">>, <<"vulnerability", "tension", "recursion">> >>

\* templates[Math.floor(rng() * templates.length)], w the generator output
GenerateTitle(a, w) ==
    LET ix == (w[1] * Len(TitleTemplates)) \div Half
        T == TitleTemplates[ix + 1]
    IN  [template |-> ix, words |-> [i \in 1..Len(T) |-> TitleWord(a, T[i])]]

\* text.js generateAltText: the phrase each aspect selects
AltPhrase(a, k) ==
    LET hi == CASE k = "coherence" -> Dec(82) [] k = "tension" -> Dec(66)
                [] k = "recursion" -> Dec(72) [] k = "motion" -> Dec(70)
                [] k = "vulnerability" -> Dec(70) [] OTHER -> Dec(75)
        lo == CASE k = "coherence" -> Dec(62) [] k = "tension" -> Dec(34)
                [] k = "recursion" -> Dec(46) [] k = "motion" -> Dec(40)
                [] k = "vulnerability" -> Dec(40) [] OTHER -> Dec(50)
    IN  IF a[k] > hi THEN 2 ELSE IF a[k] > lo THEN 1 ELSE 0

GenerateAltText(a, nodeCount, title) ==
    [title |-> title, nodeCount |-> nodeCount,
     phrases |-> [k \in Fields |-> AltPhrase(a, k)]]

\* how many numbers each drawing phase asks of its generator; for shard and
\* flow, whose totals depend on the numbers drawn and on rounding of the grid
\* steps, the least it can be.  side is the canvas width and height.
PhaseDraws(p, a, side) ==
    LET glowFloor == FloorCount(5 * Unit + Lerp(Unit, 8 * Unit, a.radiance))
        grid == FloorCount(Lerp(34 * Unit, 92 * Unit,
                    Clamp01(Mul(Dec(65), p.flow) + Mul(Dec(35), p.density))))
    IN  [glow |-> 4 * (glowFloor + 1),
         node |-> 3 * (p.nodeCount + 1),
         shard |-> (p.shardLayers + 1) * (4 + (p.shardsPerLayer + 1) * 28),
         flow |-> IF p.flow > Dec(1) THEN 2 * grid * grid ELSE 0,
         nodeGlow |-> 2 * (p.nodeCount + 1),
         grain |-> side * side]

\* lines 111-112: deriveParams and generateTitle, each on its own generator
Prepared(st, a, side) ==
    LET p == DeriveParams(a, [i \in 1..3 |-> ToUnit(st.draws["params"][i])])
    IN  [streams |-> st.streams, draws |-> st.draws, derived |-> p,
         title |-> GenerateTitle(a, st.draws["title"][1]),
         need |-> PhaseDraws(p, a, side)]

\* lines 126-295: the drawing phases in program order, each with the count
\* it asks of its generator (the node generator serves placement and glows)
DrawPlan ==
    << <<"glow", "glow">>, <<"node", "node">>, <<"shard", "shard">>,
       <<"flow", "flow">>, <<"node", "nodeGlow">>, <<"grain", "grain">> >>

RECURSIVE DrawPhases(_, _)
DrawPhases(st, k) ==
    IF k > Len(DrawPlan) THEN st
    ELSE CHOOSE r \in {DrawPhases(TakeFirst(s, DrawPlan[k][1], s.need[DrawPlan[k][2]]),
                                  k + 1) : s \in {st}} : TRUE

\* lines 297-299: what renderWith returns, with what it consumed
Returned(st, seedStr, a, side) ==
    [streams |-> st.streams,
     call |-> [seed |-> seedStr, aspects |-> a, side |-> side,
               draws |-> st.draws, need |-> st.need,
               ret |-> [title |-> st.title,
                        altText |-> GenerateAltText(a, st.derived.nodeCount + 1,
                                                    st.title),
                        nodeCount |-> st.derived.nodeCount + 1,
                        derived |-> st.derived]]]

\* renderWith, lines 99-300
RenderWith(held, seedStr, a, side) ==
    CHOOSE r \in
        {Returned(s3, seedStr, a, side) :
            s3 \in {DrawPhases(s2, 1) :
                s2 \in {Prepared(s1, a, side) :
                    s1 \in {Take(Take([streams |-> StreamsAtEntry(held, seedStr),
                                       draws |-> [ph \in PhaseSet |-> <<>>]],
                                      "params", 3), "title", 1)}}}} : TRUE

RenderSeeds == {<<>>, <<97, 98>>}
RenderAspects == {AspectsOf(0), AspectsOf(Unit)}
RenderSides == {1, 2}

RndInit ==
    /\ calls = [s \in Slots |-> IdleCall]
    /\ closed = {}
    /\ canvas = Blank
    /\ exp = IdleExport
    /\ itp = IdleInterp
    /\ prm = IdleParams
    /\ raf = IdleRaf
    /\ ldr = IdleLoader
    /\ thq = IdleThumbs
    /\ AppQuiet
    /\ rnd = [pc |-> "renderer", streams |-> <<>>, done |-> <<>>]

RndRenderWith ==
    /\ Len(rnd.done) < MaxRenders
    /\ \E seedStr \in RenderSeeds, a \in RenderAspects, side \in RenderSides :
        LET r == RenderWith(rnd.streams, seedStr, a, side)
        IN  rnd' = [rnd EXCEPT !.streams = r.streams,
                               !.done = Append(@, r.call)]
    /\ UNCHANGED <<calls, closed, canvas, appVars, exp, itp, prm, raf,
                 ldr, thq>>

RndNext == RndRenderWith

SpecRender == RndInit /\ [][RndNext]_vars

\* the first n outputs of a generator seeded with the word a
RECURSIVE StreamPrefix(_, _)
StreamPrefix(a, n) ==
    IF n = 0 THEN <<>>
    ELSE CHOOSE q \in {<<r.out>> \o StreamPrefix(r.a, n - 1) :
                        r \in {Mulberry32Next(a)}} : TRUE

\* C24: in every call, what a phase drew is the beginning of the sequence of
\* the generator seeded with the base generator's draw of that phase's rank
\* (parameters first, grain seventh), a sequence fixed by the seed string
\* alone.
C24_PhaseStreamsFromSeed ==
    \A c \in 1..Len(rnd.done) :
        LET call == rnd.done[c]
            base == StreamPrefix(Xmur3Next(Xmur3(call.seed)).out, Len(Phases))
        IN  \A i \in 1..Len(Phases) :
                call.draws[Phases[i]]
                    = StreamPrefix(base[i], Len(call.draws[Phases[i]]))

\* two calls that differ in aspects and in what the phases consumed
C24_Witness ==
    /\ Len(rnd.done) >= 2
    /\ rnd.done[1].seed = rnd.done[2].seed
    /\ rnd.done[1].aspects # rnd.done[2].aspects
    /\ Len(rnd.done[1].draws["flow"]) # Len(rnd.done[2].draws["flow"])
    /\ Len(rnd.done[1].draws["grain"]) # Len(rnd.done[2].draws["grain"])
    /\ Len(rnd.done[2].draws["shard"]) > 0

MaxLayoutShards == 2
FlowDiv == 8
LayoutRecursions == {Dec(17), Dec(19), Dec(21), Dec(22), Unit}

\* every aspect at 1 except recursion, which sets the density
LayoutAspects == {[k \in Fields |-> IF k = "recursion" THEN rec ELSE Unit] :
                    rec \in LayoutRecursions}

\* the k-th output of a generator seeded with the word a: every call adds
\* 0x6D2B79F5 to the state (params.js line 60) and hashes the sum
DrawAt(a, k) == Mulberry32Next(Add32(a, Imul(Word(k - 1), <<27947, 31221>>))).out

\* Math.floor(rng() * n), w the generator output
FloorMul(w, n) == (w[1] * n + (w[2] * n) \div Half) \div Half

\* 1 for each whole element and the fraction for the one after them
Weights(floor, countF) ==
    [i \in 1..(floor + 1) |-> IF i = floor + 1 THEN countF - floor * Unit ELSE Unit]

\* lines 123-125: the glow count
GlowCountF(a) == 5 * Unit + Lerp(Unit, 8 * Unit, a.radiance)

\* lines 137-146: the nodes, g the seed of the node generator
NodesOf(p, side, g) ==
    [i \in 1..(p.nodeCount + 1) |->
        [r |-> Lerp(10 * Unit, 28 * Unit, ToUnit(DrawAt(g, 3 * i - 2))),
         x |-> Lerp(Mul(side * Unit, Dec(20)), Mul(side * Unit, Dec(80)),
                    ToUnit(DrawAt(g, 3 * i - 1))),
         y |-> Lerp(Mul(side * Unit, Dec(22)), Mul(side * Unit, Dec(82)),
                    ToUnit(DrawAt(g, 3 * i))),
         weight |-> Weights(p.nodeCount, p.nodeCountF)[i]]]

\* lines 196-222: one shard, g the seed of the shard generator of whose
\* outputs off were drawn before it; node is the index into nodes of its
\* attractor
ShardAt(p, nodes, g, off) ==
    LET sides == 3 + FloorMul(DrawAt(g, off + 1), 5)
        node == FloorMul(DrawAt(g, off + 6), Len(nodes))
    IN  [first |-> off, sides |-> sides, node |-> node,
         attract |-> Mul(Mul(Lerp(Dec(5), Dec(24), p.density),
                             Dec(70) + Mul(Dec(70), ToUnit(DrawAt(g, off + 7)))),
                         nodes[node + 1].weight),
         drawn |-> 16 + 4 * sides]

RECURSIVE ShardsFrom(_, _, _, _, _)
ShardsFrom(p, nodes, g, off, n) ==
    IF n = 0 THEN <<>>
    ELSE CHOOSE q \in {<<sh>> \o ShardsFrom(p, nodes, g, off + sh.drawn, n - 1) :
                        sh \in {ShardAt(p, nodes, g, off)}} : TRUE

\* lines 251-256: the first node at the least distance from (gx, gy)
Nearest(nodes, gx, gy) ==
    LET dd(k) == (gx - nodes[k].x) * (gx - nodes[k].x)
                 + (gy - nodes[k].y) * (gy - nodes[k].y)
    IN  CHOOSE k \in 1..Len(nodes) :
            \A m \in 1..Len(nodes) : dd(k) < dd(m) \/ (dd(k) = dd(m) /\ k <= m)

\* lines 230-259: for every FlowDiv-th part of the grid's columns and rows,
\* the node that pulls the stroke at that grid point
FlowPull(p, nodes, side) ==
    LET grid == FloorCount(Lerp(34 * Unit, 92 * Unit,
                    Clamp01(Mul(Dec(65), p.flow) + Mul(Dec(35), p.density))))
        at(i) == (side * Unit * ((i * grid) \div FlowDiv)) \div grid
    IN  IF p.flow > Dec(1)
        THEN [pt \in (0..(FlowDiv - 1)) \X (0..(FlowDiv - 1)) |->
                 Nearest(nodes, at(pt[1]), at(pt[2]))]
        ELSE <<>>

Placed(seedStr, a, side, p, nodes, g) ==
    [seed |-> seedStr, aspects |-> a, side |-> side, derived |-> p,
     glow |-> Weights(FloorCount(GlowCountF(a)), GlowCountF(a)),
     nodes |-> nodes,
     layers |-> Weights(p.shardLayers, p.shardLayersF),
     perLayer |-> Weights(p.shardsPerLayer, p.shardsPerLayerF),
     shards |-> ShardsFrom(p, nodes, g, 4, MaxLayoutShards),
     pull |-> FlowPull(p, nodes, side)]

\* lines 137-227: placement once the parameters are derived
LayoutPlaced(seedStr, a, side, base, p) ==
    CHOOSE r \in
        {Placed(seedStr, a, side, p, nodes, base[PhaseIx("shard")]) :
            nodes \in {NodesOf(p, side, base[PhaseIx("node")])}} : TRUE

\* line 111: deriveParams on the parameter generator
LayoutDerived(seedStr, a, side, base) ==
    CHOOSE r \in
        {LayoutPlaced(seedStr, a, side, base, p) :
            p \in {DeriveParams(a, [i \in 1..3 |-> ToUnit(P[i])]) :
                     P \in {StreamPrefix(base[PhaseIx("params")], 3)}}} : TRUE

\* renderWith, lines 99-291, as far as placement goes
Layout(seedStr, a, side) ==
    CHOOSE r \in
        {LayoutDerived(seedStr, a, side, base) :
            base \in {StreamPrefix(Xmur3Next(Xmur3(seedStr)).out, Len(Phases))}} :
        TRUE

LayInit ==
    /\ calls = [s \in Slots |-> IdleCall]
    /\ closed = {}
    /\ canvas = Blank
    /\ exp = IdleExport
    /\ itp = IdleInterp
    /\ prm = IdleParams
    /\ raf = IdleRaf
    /\ ldr = IdleLoader
    /\ thq = IdleThumbs
    /\ AppQuiet
    /\ rnd = [pc |-> "layout", done |-> <<>>]

LayRenderWith ==
    /\ \E seedStr \in RenderSeeds, a \in LayoutAspects, side \in RenderSides :
        rnd' = [rnd EXCEPT !.done = IF Len(@) = 2
                                    THEN <<@[2], Layout(seedStr, a, side)>>
                                    ELSE Append(@, Layout(seedStr, a, side))]
    /\ UNCHANGED <<calls, closed, canvas, appVars, exp, itp, prm, raf,
                 ldr, thq>>

LayNext == LayRenderWith

SpecLayout == LayInit /\ [][LayNext]_vars

Counts(c) == <<c.derived.nodeCount, c.derived.shardLayers, c.derived.shardsPerLayer>>

\* y has one of the three counts one above x's and the other two as x has
RaisedByOne(x, y) ==
    /\ x.seed = y.seed
    /\ x.side = y.side
    /\ \E k \in 1..3 : Counts(y) = [Counts(x) EXCEPT ![k] = @ + 1]

\* C31: when a change of aspects raises one of nodeCount, shardLayers and
\* shardsPerLayer by one, every node of the earlier call keeps its size and
\* position and every shard of the earlier call keeps its place in the shard
\* generator's sequence, its shape and its attractor node.
C31_LowerElementsKeep ==
    \A c1, c2 \in 1..Len(rnd.done) :
        LET x == rnd.done[c1]
            y == rnd.done[c2]
        IN  RaisedByOne(x, y) =>
                /\ \A i \in 1..Len(x.nodes) :
                      /\ x.nodes[i].r = y.nodes[i].r
                      /\ x.nodes[i].x = y.nodes[i].x
                      /\ x.nodes[i].y = y.nodes[i].y
                /\ \A j \in 1..Len(x.shards) :
                      /\ x.shards[j].first = y.shards[j].first
                      /\ x.shards[j].sides = y.shards[j].sides
                      /\ x.shards[j].node = y.shards[j].node

\* C32: each count c places floor(c) elements of weight 1 and one of weight
\* c - floor(c); the attraction of a shard to a node is scaled by the node's
\* weight, and a boundary node of weight 0 pulls no stroke of the flow field.
C32_BoundaryWeighted ==
    \A c \in 1..Len(rnd.done) :
        LET x == rnd.done[c]
            p == x.derived
            last == Len(x.nodes)
        IN  /\ x.glow = Weights(FloorCount(GlowCountF(x.aspects)), GlowCountF(x.aspects))
            /\ Len(x.nodes) = FloorCount(p.nodeCountF) + 1
            /\ \A i \in 1..last :
                  x.nodes[i].weight = IF i = last THEN p.nodeCountF - (last - 1) * Unit
                                      ELSE Unit
            /\ Len(x.layers) = FloorCount(p.shardLayersF) + 1
            /\ Len(x.perLayer) = FloorCount(p.shardsPerLayerF) + 1
            /\ \A j \in 1..Len(x.shards) :
                  x.nodes[x.shards[j].node + 1].weight = 0 => x.shards[j].attract = 0
            /\ x.nodes[last].weight = 0 =>
                  \A pt \in DOMAIN x.pull : x.pull[pt] # last


(***************************************************************************)
(* The playback controller (part_000 lines 89-154).  state.playing,         *)
(* state.frames and state.durationMs are playing, ctlFrames (<<>> for null) *)
(* and ctlDurationMs; raf holds state.lastFrameIndex and the number of      *)
(* tickBuffer callbacks the browser has been asked to run.  A tick is given *)
(* elapsed, the callback's timestamp minus state.startMs.                   *)
(***************************************************************************)
MaxPending == 3
CtlElapsed == {0 - 7, 0, 499, 500, 1000, 1999, 2500}
CtlDurations == {1000, 2000}
CtlFrameLists == {<<>>, ExportFrames(1), ExportFrames(2), ExportFrames(3)}

\* a single remainder, which keeps the sign of elapsed
TickFrameIndexSingleRem(elapsed, durationMs, len) ==
    LET wrapped == JsRem(elapsed, durationMs)
    IN  Min((wrapped * len) \div durationMs, len - 1)

\* lines 103-110: the index of the frame to show
TickFrameIndex(elapsed, durationMs, len) ==
    LET wrapped == JsRem(JsRem(elapsed, durationMs) + durationMs, durationMs)
    IN  Min((wrapped * len) \div durationMs, len - 1)

\* lines 100-120: tickBuffer, as the callback the browser runs
TickBuffer(elapsed) ==
    IF ~playing \/ ctlFrames = <<>>
    THEN /\ raf' = [raf EXCEPT !.pending = @ - 1]
         /\ UNCHANGED canvas
    ELSE LET frameIndex == TickFrameIndex(elapsed, ctlDurationMs, Len(ctlFrames))
             bitmap == ctlFrames[Max(0, frameIndex) + 1]
             seen == [ran |-> TRUE, elapsed |-> elapsed, index |-> frameIndex,
                      len |-> Len(ctlFrames), prev |-> raf.lastFrameIndex,
                      drew |-> FALSE]
         IN  IF frameIndex # raf.lastFrameIndex
             THEN /\ canvas' = bitmap.img
                  /\ raf' = [raf EXCEPT !.lastFrameIndex = frameIndex,
                                        !.stale = @ \cup ({bitmap.id} \cap closed),
                                        !.tick = [seen EXCEPT !.drew = TRUE]]
             ELSE /\ raf' = [raf EXCEPT !.tick = seen]
                  /\ UNCHANGED canvas

\* lines 122-135: playFromBuffer
PlayFromBuffer(frames, durationMs) ==
    IF frames = <<>>
    THEN UNCHANGED <<playing, ctlFrames, ctlDurationMs, raf>>
    ELSE /\ playing' = TRUE
         /\ ctlFrames' = frames
         /\ ctlDurationMs' = durationMs
         /\ raf' = [raf EXCEPT !.lastFrameIndex = -1, !.pending = @ + 1]

\* lines 137-140 and 150-153: pause and stop
Pause ==
    /\ playing' = FALSE
    /\ UNCHANGED <<ctlFrames, ctlDurationMs, raf>>

CtlRest ==
    UNCHANGED <<calls, closed, currentMode, loopLandmarks, loopDurationMs,
                frameBuffer, renderBtnDisabled, exportBtnDisabled, live,
                exp, itp, prm, rnd, ldr, thq>>

CtlInit ==
    /\ calls = [s \in Slots |-> IdleCall]
    /\ closed = {}
    /\ canvas = Blank
    /\ exp = IdleExport
    /\ itp = IdleInterp
    /\ prm = IdleParams
    /\ rnd = IdleRender
    /\ raf = IdleRaf
    /\ ldr = IdleLoader
    /\ thq = IdleThumbs
    /\ AppQuiet

CtlPlayFromBuffer ==
    /\ raf.pending < MaxPending
    /\ \E frames \in CtlFrameLists, d \in CtlDurations : PlayFromBuffer(frames, d)
    /\ UNCHANGED canvas
    /\ CtlRest

CtlPause == Pause /\ UNCHANGED canvas /\ CtlRest

CtlStop == Pause /\ UNCHANGED canvas /\ CtlRest

\* lines 142-148
CtlToggle ==
    /\ raf.pending < MaxPending
    /\ IF playing
       THEN Pause
       ELSE \E frames \in CtlFrameLists, d \in CtlDurations : PlayFromBuffer(frames, d)
    /\ UNCHANGED canvas
    /\ CtlRest

CtlTick ==
    /\ raf.pending > 0
    /\ \E elapsed \in CtlElapsed : TickBuffer(elapsed)
    /\ UNCHANGED <<playing, ctlFrames, ctlDurationMs>>
    /\ CtlRest

CtlNext == CtlPlayFromBuffer \/ CtlPause \/ CtlStop \/ CtlToggle \/ CtlTick

SpecCtl == CtlInit /\ [][CtlNext]_vars

\* C30: the browser never holds more than one tickBuffer callback of the
\* controller.
C30_OneTickPending == raf.pending <= 1

\* C34: whatever timestamp a tick is given, before the start time included,
\* the index it selects is one of the frames, and it calls drawFrame only if
\* that index differs from the one drawn last.
C34_TickIndexInRange ==
    raf.tick.ran =>
        /\ raf.tick.index \in 0..(raf.tick.len - 1)
        /\ raf.tick.drew => raf.tick.index # raf.tick.prev

\* a tick stamped before the start time draws the last frame of the list
C34_Witness ==
    /\ raf.tick.ran
    /\ raf.tick.elapsed < 0
    /\ raf.tick.len = 3
    /\ raf.tick.index = 2
    /\ raf.tick.drew


(***************************************************************************)
(* SpecPlay: the page in animation mode with a rendered loop playing, the   *)
(* Export button (main.js lines 1184-1225) with exportFromBuffer running     *)
(* between its awaits, the duration slider and the controller's ticks.      *)
(* The host raises no error of its own here; what throws is drawImage or    *)
(* new VideoFrame on a closed ImageBitmap.                                  *)
(***************************************************************************)
PlayLoop == <<"a", "a">>

\* the frames a finished render of the loop left in the buffer
BufferFrames(durationMs) ==
    LET total == TotalFrames(durationMs, ANIM_FPS)
    IN  [i \in 1..total |->
            [id |-> <<1, i - 1>>,
             img |-> AnimImage(DeriveAnimSeed(PlayLoop),
                               GetLandmarkAspectsOrdered(PlayLoop), i - 1, total)]]

PlayInit ==
    /\ currentMode = "anim"
    /\ loopLandmarks = PlayLoop
    /\ loopDurationMs \in {1000 * secs : secs \in DurationSecs}
    /\ frameBuffer = [frames |-> BufferFrames(loopDurationMs), rendered |-> TRUE,
                      durationMs |-> loopDurationMs,
                      seed |-> DeriveAnimSeed(PlayLoop), rendering |-> FALSE]
    /\ renderBtnDisabled = FALSE
    /\ exportBtnDisabled = FALSE
    /\ playing = TRUE
    /\ ctlFrames = frameBuffer.frames
    /\ ctlDurationMs = loopDurationMs
    /\ live = {}
    /\ calls = [s \in Slots |-> IdleCall]
    /\ closed = {}
    /\ canvas = frameBuffer.frames[1].img
    /\ exp = IdleExport
    /\ itp = IdleInterp
    /\ prm = IdleParams
    /\ rnd = IdleRender
    /\ raf = [IdleRaf EXCEPT !.pending = 1]
    /\ ldr = IdleLoader
    /\ thq = IdleThumbs

\* the first index from f0 to the segment's end whose bitmap is closed, the
\* one at which new VideoFrame(frames[f]) throws; -1 if there is none
FirstClosed(e, f0) ==
    LET bad == {f \in f0..SegEnd(f0, e.totalFrames) : e.frames[f + 1].id \in closed}
    IN  IF bad = {} THEN -1 ELSE CHOOSE f \in bad : \A g \in bad : f <= g

\* part_000 line 282: tmpCtx.drawImage(frames[f]) throws on a closed bitmap
\* and exportFromBuffer rejects
PngDrawn(e) ==
    IF e.pc = "pngBlob" /\ e.frames[e.f + 1].id \in closed
    THEN [e EXCEPT !.pc = "threw", !.fault = "drawImage",
                   !.result = [NoResult EXCEPT !.kind = "error"]]
    ELSE e

\* the closed bitmaps a segment handed to new VideoFrame or drawImage
StaleReads(e0, bad, e1) ==
    (IF bad >= 0 THEN {e0.frames[bad + 1].id} ELSE {})
        \cup (IF e1.pc = "pngBlob" THEN {e1.frames[e1.f + 1].id} \cap closed ELSE {})

\* a segment of exportFromBuffer inside the click handler: e1 is the call
\* after the segment, bad the index at which new VideoFrame threw
PlaySegment(e0, bad, e1) ==
    /\ exp' = PngDrawn(e1)
    /\ raf' = [raf EXCEPT !.stale = @ \cup StaleReads(e0, bad, e1)]

PlayRest ==
    UNCHANGED <<calls, closed, canvas, currentMode, loopLandmarks,
                loopDurationMs, frameBuffer, renderBtnDisabled, ctlFrames,
                ctlDurationMs, live, itp, prm, rnd, ldr, thq>>

\* main.js lines 1184-1200: Export in animation mode, up to the first await
\* inside exportFromBuffer
PlayExportClick ==
    /\ currentMode = "anim"
    /\ ~exportBtnDisabled
    /\ exp.pc = "idle"
    /\ IF ~frameBuffer.rendered \/ frameBuffer.frames = <<>>
       THEN UNCHANGED <<playing, exportBtnDisabled, exp, raf>>
       ELSE /\ playing' = FALSE
            /\ exportBtnDisabled' = TRUE
            /\ \E h \in BOOLEAN :
                 LET e0 == [IdleExport EXCEPT !.frames = frameBuffer.frames,
                                              !.fps = ANIM_FPS, !.hostCodec = h]
                 IN  PlaySegment(e0, -1, ExportStart(e0))
    /\ PlayRest

PlayExportProbe ==
    /\ exp.pc = "probe"
    /\ \E outcome \in {"supported", "unsupported", "throws"} :
          PlaySegment(exp, IF outcome = "supported" THEN FirstClosed(exp, 0) ELSE -1,
                      Probed(exp, outcome, "none", FirstClosed(exp, 0)))
    /\ UNCHANGED <<playing, exportBtnDisabled>>
    /\ PlayRest

PlayExportStreamYield ==
    /\ exp.pc = "streamYield"
    /\ PlaySegment(exp, FirstClosed(exp, exp.f + 1),
                   StreamFrom([exp EXCEPT !.f = @ + 1], FirstClosed(exp, exp.f + 1)))
    /\ UNCHANGED <<playing, exportBtnDisabled>>
    /\ PlayRest

PlayExportFlush ==
    /\ exp.pc = "flush"
    /\ \E size \in BlobSizes : PlaySegment(exp, -1, Flushed(exp, "ok", size))
    /\ UNCHANGED <<playing, exportBtnDisabled>>
    /\ PlayRest

PlayExportPngBlob ==
    /\ exp.pc = "pngBlob"
    /\ exp' = [exp EXCEPT !.png = Append(@, PngEntry(exp, exp.f)), !.pc = "pngYield"]
    /\ UNCHANGED <<playing, exportBtnDisabled, raf>>
    /\ PlayRest

PlayExportPngYield ==
    /\ exp.pc = "pngYield"
    /\ PlaySegment(exp, -1,
                   IF exp.f + 1 < exp.totalFrames
                   THEN [exp EXCEPT !.f = @ + 1, !.pc = "pngBlob"]
                   ELSE PngReturn([exp EXCEPT !.f = @ + 1]))
    /\ UNCHANGED <<playing, exportBtnDisabled>>
    /\ PlayRest

\* main.js lines 1211-1224: packaging or the catch block, then finally
PlayExportDone ==
    /\ exp.pc \in {"returned", "threw"}
    /\ exp' = IdleExport
    /\ exportBtnDisabled' = FALSE
    /\ UNCHANGED <<playing, raf>>
    /\ PlayRest

PlayTick ==
    /\ raf.pending > 0
    /\ \E elapsed \in CtlElapsed : TickBuffer(elapsed)
    /\ UNCHANGED <<playing, ctlFrames, ctlDurationMs>>
    /\ CtlRest

PlayNext ==
    \/ PlayExportClick \/ PlayExportProbe \/ PlayExportStreamYield
    \/ PlayExportFlush \/ PlayExportPngBlob \/ PlayExportPngYield
    \/ PlayExportDone
    \/ \E secs \in DurationSecs : DurationInput(secs)
    \/ PlayTick

SpecPlay == PlayInit /\ [][PlayNext]_vars

\* C28: no closed frame image is ever handed to drawImage by playback or to
\* new VideoFrame / drawImage by exportFromBuffer.
C28_NoUseAfterClose == raf.stale = {}


(***************************************************************************)
(* The loading animation (loading-animation.js).  Time is counted from      *)
(* transitionStart in steps of LoaderStep milliseconds; a drawFrame         *)
(* callback is given the time that has passed when the browser runs it.     *)
(* Of the drawing only the scale is kept.                                   *)
(***************************************************************************)
EMERGE_MS == 1000
CONDENSE_MS == 600
LoaderStep == 200
MaxLoaderPending == 3
MaxLoaderStarts == 3

Cube(x) == Mul(Mul(x, x), x)
EaseOutCubic(x) == Unit - Cube(Unit - x)
EaseInCubic(x) == Cube(x)

\* requestAnimationFrame(drawFrame) with the id stored in rafId: pending
\* counts the callbacks the browser holds, rafIdPending tells whether the one
\* rafId names is among them
Request(l) == [l EXCEPT !.pending = @ + 1, !.rafIdPending = TRUE]

\* cancelAnimationFrame(rafId); rafId = null
Cancel(l) ==
    [l EXCEPT !.pending = IF l.rafIdPending THEN @ - 1 ELSE @,
              !.rafIdPending = FALSE]

\* lines 41-61: updateScale; keep is its return value
UpdateScale(l) ==
    IF l.phase = "emerging"
    THEN LET t == Min((l.elapsed * Unit) \div EMERGE_MS, Unit)
             sc == l.transitionFrom + Mul(Unit - l.transitionFrom, EaseOutCubic(t))
         IN  [l |-> [l EXCEPT !.scale = sc,
                              !.phase = IF t >= Unit THEN "running" ELSE @],
              keep |-> TRUE]
    ELSE IF l.phase = "condensing"
    THEN LET t == Min((l.elapsed * Unit) \div CONDENSE_MS, Unit)
             sc == Mul(l.transitionFrom, Unit - EaseInCubic(t))
         IN  IF t >= Unit
             THEN [l |-> Cancel([l EXCEPT !.phase = "idle", !.scale = 0,
                                          !.attached = FALSE]),
                   keep |-> FALSE]
             ELSE [l |-> [l EXCEPT !.scale = sc], keep |-> TRUE]
    ELSE [l |-> l, keep |-> TRUE]

\* lines 222-241: drawFrame, run by the browser as the callback rafId names
\* (own) or as an older one
DrawFrame(l, own) ==
    LET l0 == [l EXCEPT !.pending = @ - 1,
                        !.rafIdPending = IF own THEN FALSE ELSE @]
        u == UpdateScale(l0)
    IN  IF l0.phase = "idle" THEN l0
        ELSE IF ~u.keep THEN u.l
        ELSE Request(u.l)

\* lines 244-276: start
LoaderStart(l) ==
    LET l0 == [l EXCEPT !.created = TRUE, !.attached = TRUE, !.starts = @ + 1]
    IN  IF l0.phase = "condensing"
        THEN [l0 EXCEPT !.transitionFrom = l0.scale, !.elapsed = 0,
                        !.phase = "emerging"]
        ELSE IF l0.phase \in {"idle", "running"}
        THEN Request([l0 EXCEPT !.transitionFrom = l0.scale, !.elapsed = 0,
                                !.phase = "emerging"])
        ELSE l0

\* a stop that begins the condense transition anew when one is under way
LoaderStopRestarts(l) ==
    IF l.phase = "idle" THEN l
    ELSE [l EXCEPT !.transitionFrom = l.scale, !.elapsed = 0,
                   !.phase = "condensing"]

\* lines 278-287: stop
LoaderStop(l) ==
    IF l.phase \in {"emerging", "running"}
    THEN [l EXCEPT !.transitionFrom = l.scale, !.elapsed = 0,
                   !.phase = "condensing"]
    ELSE l

LdrRest ==
    UNCHANGED <<calls, closed, canvas, appVars, exp, itp, prm, rnd, raf, thq>>

LdrInit ==
    /\ calls = [s \in Slots |-> IdleCall]
    /\ closed = {}
    /\ canvas = Blank
    /\ exp = IdleExport
    /\ itp = IdleInterp
    /\ prm = IdleParams
    /\ rnd = IdleRender
    /\ raf = IdleRaf
    /\ ldr = IdleLoader
    /\ thq = IdleThumbs
    /\ AppQuiet

LdrStart ==
    /\ ldr.pending < MaxLoaderPending
    /\ ldr.starts < MaxLoaderStarts
    /\ ldr' = LoaderStart(ldr)
    /\ LdrRest

LdrStop ==
    /\ ldr' = LoaderStop(ldr)
    /\ LdrRest

\* the browser runs one pending callback
LdrFrame ==
    /\ \E own \in BOOLEAN :
          /\ IF own THEN ldr.rafIdPending
                    ELSE ldr.pending > (IF ldr.rafIdPending THEN 1 ELSE 0)
          /\ ldr' = DrawFrame(ldr, own)
    /\ LdrRest

\* LoaderStep milliseconds pass (followed until the transition under way can end)
LdrTimePasses ==
    /\ \/ ldr.phase = "emerging" /\ ldr.elapsed < EMERGE_MS
       \/ ldr.phase = "condensing" /\ ldr.elapsed < CONDENSE_MS
    /\ ldr' = [ldr EXCEPT !.elapsed = @ + LoaderStep]
    /\ LdrRest

LdrNext == LdrStart \/ LdrStop \/ LdrFrame \/ LdrTimePasses

SpecLoader == LdrInit /\ [][LdrNext]_vars

\* the browser keeps running animation-frame callbacks and time keeps passing
SpecLoaderLive ==
    LdrInit /\ [][LdrNext]_vars /\ WF_vars(LdrFrame) /\ WF_vars(LdrTimePasses)

\* C37: the browser never holds two drawFrame callbacks of the loading
\* animation.
C37_OneFrameLoop == ldr.pending <= 1

\* C36: once the animation is condensing, unless start() is called again it
\* comes to rest: phase idle, no callback pending, canvas out of its
\* container; and a stop() in phase idle or condensing changes nothing.
C36_StopComesToRest ==
    /\ (ldr.phase = "condensing")
          ~> (\/ ldr.phase = "idle" /\ ldr.pending = 0 /\ ~ldr.attached
              \/ ldr.phase = "emerging")
    /\ [][(LdrStop /\ ldr.phase \in {"idle", "condensing"}) => ldr' = ldr]_vars

\* at rest after a start and a stop: the canvas exists and is detached
C36_Witness ==
    /\ ldr.phase = "idle"
    /\ ldr.created
    /\ ~ldr.attached
    /\ ldr.pending = 0


(***************************************************************************)
(* The thumbnail cache and render queue (main.js).  A request is numbered   *)
(* by its arrival; src[n] is what the destination image of request n        *)
(* shows ("" until it is given a data URL, which is named by its cache key).*)
(***************************************************************************)
MaxThumbRequests == 3
ThumbKeys == {"k1", "k2"}

\* a drain that arms a timer even while one is pending
DrainUnguarded(t) ==
    IF Len(t.queue) = 0 THEN t
    ELSE [t EXCEPT !.thumbProcessing = TRUE, !.timers = @ + 1]

\* lines 129-133: drainThumbQueue up to the setTimeout
DrainThumbQueue(t) ==
    IF t.thumbProcessing \/ Len(t.queue) = 0 THEN t
    ELSE [t EXCEPT !.thumbProcessing = TRUE, !.timers = @ + 1]

\* lines 119-127: queueThumbnail for the image of a new request
QueueThumbnail(t, key, connected) ==
    LET n == t.requests + 1
        t0 == [t EXCEPT !.requests = n]
    IN  IF key \in t.cache
        THEN [t0 EXCEPT !.src = Append(@, key)]
        ELSE DrainThumbQueue(
                 [t0 EXCEPT !.src = Append(@, ""),
                            !.queue = Append(@, [id |-> n, key |-> key,
                                                 connected |-> connected])])

\* lines 133-143: the timer callback
DrainTimer(t) ==
    LET t0 == [t EXCEPT !.timers = @ - 1]
        t1 == IF Len(t0.queue) = 0 THEN t0
              ELSE LET item == Head(t0.queue)
                       rest == [t0 EXCEPT !.queue = Tail(@)]
                   IN  IF item.connected
                       THEN [rest EXCEPT !.cache = @ \cup {item.key},
                                         !.src[item.id] = item.key]
                       ELSE rest
    IN  DrainThumbQueue([t1 EXCEPT !.thumbProcessing = FALSE])

ThqRest ==
    UNCHANGED <<calls, closed, canvas, appVars, exp, itp, prm, rnd, raf, ldr>>

ThqInit ==
    /\ calls = [s \in Slots |-> IdleCall]
    /\ closed = {}
    /\ canvas = Blank
    /\ exp = IdleExport
    /\ itp = IdleInterp
    /\ prm = IdleParams
    /\ rnd = IdleRender
    /\ raf = IdleRaf
    /\ ldr = IdleLoader
    /\ thq = IdleThumbs
    /\ AppQuiet

ThqQueueThumbnail(key, connected) ==
    /\ thq.requests < MaxThumbRequests
    /\ thq' = QueueThumbnail(thq, key, connected)
    /\ ThqRest

ThqTimer ==
    /\ thq.timers > 0
    /\ thq' = DrainTimer(thq)
    /\ ThqRest

\* the destination image of a queued request leaves the document
ThqDetach ==
    /\ \E i \in 1..Len(thq.queue) :
          /\ thq.queue[i].connected
          /\ thq' = [thq EXCEPT !.queue[i].connected = FALSE]
    /\ ThqRest

ThqNext ==
    \/ \E key \in ThumbKeys, connected \in BOOLEAN : ThqQueueThumbnail(key, connected)
    \/ ThqTimer
    \/ ThqDetach

SpecThumbs == ThqInit /\ [][ThqNext]_vars

\* a timer that is set fires
SpecThumbsLive == ThqInit /\ [][ThqNext]_vars /\ WF_vars(ThqTimer)

QueueIds(t) == [i \in 1..Len(t.queue) |-> t.queue[i].id]

\* C38: at most one drain timer is pending; the queue is served from its head
\* and filled at its tail; the timer callback renders and caches the head
\* request exactly when its image is attached; a request whose key is cached
\* is served at once and not queued; every queued request is eventually
\* dequeued.
C38_ThumbQueue ==
    /\ [](thq.timers <= 1)
    /\ [][\/ QueueIds(thq') = QueueIds(thq)
          \/ QueueIds(thq') = Append(QueueIds(thq), thq'.requests)
          \/ Len(thq.queue) > 0 /\ QueueIds(thq') = Tail(QueueIds(thq))]_vars
    /\ [][ThqTimer =>
            /\ Len(thq.queue) > 0
            /\ thq'.queue = Tail(thq.queue)
            /\ LET item == Head(thq.queue)
               IN  IF item.connected
                   THEN /\ thq'.cache = thq.cache \cup {item.key}
                        /\ thq'.src[item.id] = item.key
                   ELSE /\ thq'.cache = thq.cache
                        /\ thq'.src = thq.src]_vars
    /\ [][\A key \in ThumbKeys, connected \in BOOLEAN :
            (ThqQueueThumbnail(key, connected) /\ key \in thq.cache) =>
                /\ thq'.queue = thq.queue
                /\ thq'.timers = thq.timers
                /\ thq'.src[thq'.requests] = key]_vars
    /\ \A n \in 1..(MaxThumbRequests + 1) :
          (\E i \in 1..Len(thq.queue) : thq.queue[i].id = n)
              ~> ~(\E i \in 1..Len(thq.queue) : thq.queue[i].id = n)

\* a queued request was rendered, a detached one was dropped, and a later
\* request for the cached key was served without queueing
C38_Witness ==
    /\ thq.queue = <<>>
    /\ thq.timers = 0
    /\ \E a, b, c \in 1..thq.requests :
          /\ a < c /\ b # a /\ b # c
          /\ thq.src[a] # ""
          /\ thq.src[b] = ""
          /\ thq.src[c] = thq.src[a]

====
